---- MODULE Spec2Model ----
(***************************************************************************)
(* A model of gofr: the pattern trie (src/trie/trie.go), the frontend      *)
(* endpoint registry and forwarder, and the backend control channel        *)
(* (package frontend and package backend, src/unnamed/part_000).           *)
(*                                                                         *)
(* Three specifications share the module:                                  *)
(*   SpecTrie     Trie.Insert and Trie.Find on one trie                    *)
(*   Spec         the frontend registry: ServeBackend workers against      *)
(*                arbitrary peers, Endpoint.ServeHTTP workers and          *)
(*                HandleEndpoint, interleaved at lock granularity          *)
(*   SpecConnect  one control connection between Frontend.ServeBackend     *)
(*                and Backend.connect over a net.Pipe (TestConnect)        *)
(*                                                                         *)
(* Strings that the code compares or cuts are sequences of one-character   *)
(* strings, ordered bytewise as Go orders strings.                         *)
(***************************************************************************)
EXTENDS Integers, Sequences, FiniteSets, TLC

VARIABLES
    trie,       \* SpecTrie: the Trie under test (the receiver of Insert/Find)
    tres,       \* SpecTrie: the last operation and what it returned
    endpoints,  \* Frontend.endpoints: the registered Endpoint objects, in order
    hosts,      \* Endpoint.hosts of every Endpoint object: a list of *url.URL
    flock,      \* Frontend.lock: [w: the writer or "none", r: the readers]
    elock,      \* Endpoint.lock of every Endpoint object, likewise
    conn,       \* per control connection: the ServeBackend worker serving it
    http,       \* per HTTP worker: the Endpoint.ServeHTTP call it is in
    he,         \* the goroutine that calls HandleEndpoint
    be,         \* SpecConnect: the Backend.connect call at the other end
    pipe,       \* SpecConnect: the net.Pipe between the two
    hook,       \* SpecConnect: TestConnect's replacement of Sleepish
    wire,       \* SpecConnect: the frames written to the pipe, in order
    listener,   \* SpecAccept: the ServeBackends call on a net.Listener
    lister,     \* SpecLocks: the goroutine serving ListBackends
    static      \* SpecStatic: a DirCache, its clock, its servers and its puts

trieVars == <<trie, tres>>

regVars == <<endpoints, hosts, flock, elock, conn>>

pipeVars == <<be, pipe, hook, wire>>

sideVars == <<listener, lister, static>>

vars ==
    <<trie, tres, endpoints, hosts, flock, elock, conn, http, he, be, pipe, hook, wire,
      listener, lister, static>>

----------------------------------------------------------------------------
(* Strings                                                                 *)

\* The byte value of a character, for Go's bytewise string comparison.
Ord(c) ==
    CASE c = "-" -> 45
      [] c = "." -> 46
      [] c = "/" -> 47
      [] c = "a" -> 97
      [] c = "b" -> 98
      [] c = "c" -> 99
      [] c = "d" -> 100

RECURSIVE StrLess(_, _)
\* s < t for Go strings: bytewise lexicographic, a proper prefix is smaller.
StrLess(s, t) ==
    IF t = <<>> THEN FALSE
    ELSE IF s = <<>> THEN TRUE
    ELSE IF Ord(Head(s)) < Ord(Head(t)) THEN TRUE
    ELSE IF Ord(Head(s)) > Ord(Head(t)) THEN FALSE
    ELSE StrLess(Tail(s), Tail(t))

\* strings.HasSuffix(s, "/")
HasSlashSuffix(s) == Len(s) > 0 /\ s[Len(s)] = "/"

----------------------------------------------------------------------------
(* Trie (src/trie/trie.go)                                                 *)

\* A nil http.Handler.
NilLeaf == [kind |-> "nil"]

\* A handler value told apart by its id.
Handler(id) == [kind |-> "handler", id |-> id]

\* &Trie{Name: name}: no children, nil leaf.
NewTrie(name) == [Name |-> name, Child |-> <<>>, Leaf |-> NilLeaf]

\* byName.Less
byNameLess(a, b) == StrLess(a.Name, b.Name)

RECURSIVE InsertSorted(_, _)
InsertSorted(sorted, x) ==
    IF sorted = <<>> THEN <<x>>
    ELSE IF byNameLess(x, Head(sorted)) THEN <<x>> \o sorted
    ELSE <<Head(sorted)>> \o InsertSorted(Tail(sorted), x)

RECURSIVE SortByName(_)
\* sort.Sort(byName(v)): the ascending arrangement of v (names are distinct
\* wherever Insert calls it, so the arrangement is unique).
SortByName(v) ==
    IF v = <<>> THEN <<>>
    ELSE InsertSorted(SortByName(SubSeq(v, 1, Len(v) - 1)), v[Len(v)])

RECURSIVE BinarySearch(_, _, _)
\* The loop of Find over the slice `search`, which starts `off` elements
\* into t.Child: the index in t.Child of the child named piece, 0 if the
\* loop ends without meeting it.
BinarySearch(search, off, piece) ==
    IF Len(search) = 0 THEN 0
    ELSE LET i == Len(search) \div 2      \* 0-based index
             cur == search[i + 1]
         IN IF piece = cur.Name THEN off + i + 1
            ELSE IF StrLess(piece, cur.Name)
                 THEN BinarySearch(SubSeq(search, 1, i), off, piece)
                 ELSE BinarySearch(SubSeq(search, i + 2, Len(search)),
                                   off + i + 1, piece)

RECURSIVE Find(_, _)
\* Trie.Find: [n, node, at] where at is the chain of child indices from the
\* receiver to node (the identity of the returned *Trie).
Find(t, paths) ==
    IF Len(paths) = 0 THEN [n |-> 0, node |-> t, at |-> <<>>]
    ELSE LET i == BinarySearch(t.Child, 0, paths[1])
         IN IF i = 0 THEN [n |-> 0, node |-> t, at |-> <<>>]
            ELSE LET r == Find(t.Child[i], Tail(paths))
                 IN IF r.node.Leaf # NilLeaf
                    THEN [n |-> r.n + 1, node |-> r.node, at |-> <<i>> \o r.at]
                    ELSE [n |-> 0, node |-> t, at |-> <<>>]

\* The linear scan of Insert: the index of the first child named next, or 0.
LinearScan(children, next) ==
    IF \E i \in 1..Len(children) : children[i].Name = next
    THEN CHOOSE i \in 1..Len(children) :
            /\ children[i].Name = next
            /\ \A j \in 1..(i - 1) : children[j].Name # next
    ELSE 0

\* No error.
NoErr == [path |-> <<>>, msg |-> "nil"]

\* fmt.Errorf("%s: %s", name, err): the message with "name: " put in front.
WrapErr(name, err) == [path |-> <<name>> \o err.path, msg |-> err.msg]

\* A slip in Insert: the new child is appended and the slice is not sorted.
AppendChildUnsorted(children, next) == Append(children, NewTrie(next))

\* t.Child with a new node for `next` appended and the slice sorted again.
AppendChild(children, next) == SortByName(Append(children, NewTrie(next)))

\* A slip in Insert: the leaf is stored without looking for an earlier one.
SetLeafOverwrite(t, leaf) == [t |-> [t EXCEPT !.Leaf = leaf], err |-> NoErr]

\* Insert with no segment left: the leaf is stored unless the node has one.
SetLeaf(t, leaf) ==
    IF t.Leaf # NilLeaf
    THEN [t |-> t, err |-> [path |-> <<t.Name>>, msg |-> "leaf already exists"]]
    ELSE [t |-> [t EXCEPT !.Leaf = leaf], err |-> NoErr]

RECURSIVE Insert(_, _, _)
\* Trie.Insert: [t, err], t being the receiver as the call leaves it (the
\* code changes it in place, whether or not the call fails).
Insert(t, paths, leaf) ==
    IF Len(paths) = 0
    THEN SetLeaf(t, leaf)
    ELSE LET next == paths[1]
             hit == LinearScan(t.Child, next)
             children == IF hit = 0 THEN AppendChild(t.Child, next) ELSE t.Child
             at == LinearScan(children, next)
             sub == Insert(children[at], Tail(paths), leaf)
             after == [t EXCEPT !.Child = [children EXCEPT ![at] = sub.t]]
         IN IF sub.err # NoErr
            THEN [t |-> after,
                  err |-> IF t.Name = <<>> THEN sub.err ELSE WrapErr(t.Name, sub.err)]
            ELSE [t |-> after, err |-> NoErr]

\* NewDomain().Trie: a root whose leaf is the 404 handler.
NotFoundHandler == [kind |-> "notfound"]

\* A slip: the Domain is made without its 404 leaf.
NewDomainTrieNoLeaf == NewTrie(<<>>)

\* The Trie of NewDomain().
NewDomainTrie == [Name |-> <<>>, Child |-> <<>>, Leaf |-> NotFoundHandler]

----------------------------------------------------------------------------
(* Frontend registry and control channel (src/unnamed/part_000)            *)

\* Control connections, HTTP workers and Endpoint objects.
Conns == {"c1", "c2"}

Workers == {"h1"}

EndpointIds == {"E1", "E2"}

\* Endpoint.Name of each Endpoint object.
EpName(e) ==
    IF e \in {"E1", "E3"} THEN "test" ELSE IF e = "E4" THEN "" ELSE "aux"

\* rand.Int63() draws.
Nonces == {1, 2}

\* A sync.RWMutex nobody holds.
Unlocked == [w |-> "none", r |-> {}]

\* Lock() can return: no writer and no reader holds the lock.
CanLock(l) == l.w = "none" /\ l.r = {}

\* RLock() can return: no writer holds the lock.
CanRLock(l) == l.w = "none"

\* A slip: the endpoint's hosts are changed under a lock that does not wait
\* for the readers (RLock where Lock is meant).
ELockIgnoringReaders(e) == elock[e].w = "none"

\* b.lock.Lock() in addBackend and delBackend can return.
ELockFree(e) == CanLock(elock[e])

\* A slip: the name is not compared and the first Endpoint is taken.
FindFirstEndpoint(eps, name) == IF Len(eps) > 0 THEN eps[1] ELSE "none"

\* The loop over f.endpoints of addBackend and delBackend: the first
\* Endpoint whose Name is name, "none" when there is none.
FindEndpoint(eps, name) ==
    IF \E i \in 1..Len(eps) : EpName(eps[i]) = name
    THEN eps[CHOOSE i \in 1..Len(eps) :
                /\ EpName(eps[i]) = name
                /\ \A j \in 1..(i - 1) : EpName(eps[j]) # name]
    ELSE "none"

\* The url.URL ServeBackend builds; ptr is the address of that local
\* variable, which is what delBackend compares.
NewURL(c, host, port) == [ptr |-> c, Scheme |-> "http", Host |-> <<host, port>>]

NoURL == [ptr |-> "none"]

\* The first index of list whose pointer is url's, 0 when there is none.
IndexOfPtr(list, url) ==
    IF \E i \in 1..Len(list) : list[i].ptr = url.ptr
    THEN CHOOSE i \in 1..Len(list) :
            /\ list[i].ptr = url.ptr
            /\ \A j \in 1..(i - 1) : list[j].ptr # url.ptr
    ELSE 0

\* list without its element i.
RemoveAt(list, i) == SubSeq(list, 1, i - 1) \o SubSeq(list, i + 1, Len(list))

\* A slip in delBackend: the URLs are compared by value, not by pointer.
RemoveURLByValue(list, url) ==
    IF \E i \in 1..Len(list) : list[i].Host = url.Host
    THEN RemoveAt(list, CHOOSE i \in 1..Len(list) :
                            /\ list[i].Host = url.Host
                            /\ \A j \in 1..(i - 1) : list[j].Host # url.Host)
    ELSE list

\* The inner loop of delBackend: b.hosts without the first entry that is
\* the very pointer url; unchanged when there is none.
RemoveURL(list, url) ==
    IF IndexOfPtr(list, url) = 0 THEN list ELSE RemoveAt(list, IndexOfPtr(list, url))

\* added records the addBackend a worker completed: the Endpoint it appended
\* to and the host:port of the URL.
NotAdded == [ep |-> "none"]

\* reg records what the handshake decoded and, when Host was empty and the
\* peer address was looked at, the peer's IP.
NoReg == [Host |-> "", Port |-> 0, peer |-> ""]

\* A ServeBackend worker that has not read the handshake yet.
NewConn ==
    [pc |-> "handshake", name |-> "", url |-> NoURL, b |-> "none", added |-> NotAdded,
     reg |-> NoReg, nonce |-> 0, forged |-> FALSE, ret |-> "none", closed |-> FALSE]

\* A slip: the connection is left open when ServeBackend returns.
ReturnNoClose(w, ret) ==
    [w EXCEPT !.pc = "returned", !.ret = ret,
              !.name = "", !.url = NoURL, !.b = "none", !.nonce = 0, !.reg = NoReg]

\* ServeBackend returns ret: its locals are gone and the deferred
\* conn.Close() has run.
Return(w, ret) ==
    [w EXCEPT !.pc = "returned", !.ret = ret, !.closed = TRUE,
              !.name = "", !.url = NoURL, !.b = "none", !.nonce = 0, !.reg = NoReg]

\* A slip: delBackend is called after the loop only, not deferred, so the
\* paths that return an error from inside the loop skip it.
LoopExitNoDefer(w, ret) ==
    IF ret = "nil" THEN [w EXCEPT !.pc = "del_lockF", !.ret = ret, !.nonce = 0]
    ELSE Return(w, ret)

\* The ping loop ends with ret: the deferred delBackend runs first.
LoopExit(w, ret) == [w EXCEPT !.pc = "del_lockF", !.ret = ret, !.nonce = 0]

\* A slip: the next ping is sent without reading the answer to this one.
AfterPingNoWait == "ping"

\* Where the loop goes after a ping was written: it decodes the pong.
AfterPing == "pong"

\* A slip: the nonce of the pong is not compared.
NonceAlwaysMatches(got, want) == TRUE

\* got == want of the nonce check.
NonceMatches(got, want) == got = want

\* err == io.EOF || err == io.ErrClosedPipe
CleanClose(err) == err \in {"EOF", "ErrClosedPipe"}

\* dec.Decode(&reg) and what follows it up to the call of addBackend.
\* in is what the decoder yields, peer the connection's RemoteAddr.
FeHandshake(c, in, peer) ==
    /\ conn[c].pc = "handshake"
    /\ conn' = [conn EXCEPT ![c] =
                  IF in.kind # "reg" THEN Return(@, "handshake failed")
                  ELSE IF in.Host = "" /\ ~peer.tcp THEN Return(@, "cannot infer source address")
                  ELSE [@ EXCEPT !.pc = "add_lockF", !.name = in.Name,
                                 !.reg = [Host |-> in.Host, Port |-> in.Port,
                                          peer |-> IF in.Host = "" THEN peer.ip
                                                   ELSE ""],
                                 !.url = NewURL(c, IF in.Host = "" THEN peer.ip ELSE in.Host,
                                                in.Port)]]
    /\ UNCHANGED <<endpoints, hosts, flock, elock, http, he, trieVars, sideVars>>

\* addBackend: f.lock.Lock()
AddLockF(c) ==
    /\ conn[c].pc = "add_lockF"
    /\ CanLock(flock)
    /\ flock' = [flock EXCEPT !.w = c]
    /\ conn' = [conn EXCEPT ![c].pc = "add_scan"]
    /\ UNCHANGED <<endpoints, hosts, elock, http, he, pipeVars, trieVars, sideVars>>

\* addBackend: the scan of f.endpoints; "unknown backend" when it finds none,
\* and ServeBackend returns that error.
AddScan(c) ==
    /\ conn[c].pc = "add_scan"
    /\ LET e == FindEndpoint(endpoints, conn[c].name)
       IN IF e = "none"
          THEN /\ flock' = [flock EXCEPT !.w = "none"]
               /\ conn' = [conn EXCEPT ![c] = Return(@, "unknown backend")]
          ELSE /\ conn' = [conn EXCEPT ![c].pc = "add_lockE", ![c].b = e]
               /\ UNCHANGED flock
    /\ UNCHANGED <<endpoints, hosts, elock, http, he, pipeVars, trieVars, sideVars>>

\* addBackend: b.lock.Lock()
AddLockE(c) ==
    /\ conn[c].pc = "add_lockE"
    /\ ELockFree(conn[c].b)
    /\ elock' = [elock EXCEPT ![conn[c].b].w = c]
    /\ conn' = [conn EXCEPT ![c].pc = "add_append"]
    /\ UNCHANGED <<endpoints, hosts, flock, http, he, pipeVars, trieVars, sideVars>>

\* addBackend: the append, then the deferred unlocks; ServeBackend enters
\* its loop.
AddAppend(c) ==
    /\ conn[c].pc = "add_append"
    /\ hosts' = [hosts EXCEPT ![conn[c].b] = Append(@, conn[c].url)]
    /\ elock' = [elock EXCEPT ![conn[c].b].w = "none"]
    /\ flock' = [flock EXCEPT !.w = "none"]
    /\ conn' = [conn EXCEPT ![c].pc = "ping", ![c].b = "none",
                            ![c].added = [ep |-> conn[c].b, Host |-> conn[c].url.Host]]
    /\ UNCHANGED <<endpoints, http, he, pipeVars, trieVars, sideVars>>

\* One turn of the loop up to enc.Encode(ping): Sleepish, the nonce, the
\* write.  out is "ok" or the error of the write.
FePing(c, nonce, out) ==
    /\ conn[c].pc = "ping"
    /\ conn' = [conn EXCEPT ![c] =
                  IF out = "ok" THEN [@ EXCEPT !.pc = AfterPing, !.nonce = nonce]
                  ELSE IF CleanClose(out) THEN LoopExit(@, "nil")
                  ELSE LoopExit(@, "ping failed")]
    /\ UNCHANGED <<endpoints, hosts, flock, elock, http, he, trieVars, sideVars>>

\* dec.Decode(&pong) and the nonce check.  in is what the decoder yields.
\* forged records that a Status with another nonce than the ping's was
\* decoded on this connection.
FePong(c, in) ==
    /\ conn[c].pc = "pong"
    /\ LET w == [conn[c] EXCEPT !.forged =
                   @ \/ (in.kind = "status" /\ in.Nonce # conn[c].nonce)]
       IN conn' = [conn EXCEPT ![c] =
                  IF in.kind = "status"
                  THEN IF NonceMatches(in.Nonce, w.nonce)
                       THEN [w EXCEPT !.pc = "ping", !.nonce = 0]
                       ELSE LoopExit(w, "ping/pong mismatch")
                  ELSE IF in.kind = "err" /\ CleanClose(in.err) THEN LoopExit(w, "nil")
                  ELSE LoopExit(w, "pong decode")]
    /\ UNCHANGED <<endpoints, hosts, flock, elock, http, he, trieVars, sideVars>>

\* delBackend: f.lock.Lock()
DelLockF(c) ==
    /\ conn[c].pc = "del_lockF"
    /\ CanLock(flock)
    /\ flock' = [flock EXCEPT !.w = c]
    /\ conn' = [conn EXCEPT ![c].pc = "del_scan"]
    /\ UNCHANGED <<endpoints, hosts, elock, http, he, pipeVars, trieVars, sideVars>>

\* delBackend: the scan of f.endpoints; a warning when it finds none.
DelScan(c) ==
    /\ conn[c].pc = "del_scan"
    /\ LET e == FindEndpoint(endpoints, conn[c].name)
       IN IF e = "none"
          THEN /\ flock' = [flock EXCEPT !.w = "none"]
               /\ conn' = [conn EXCEPT ![c] = Return(@, @.ret)]
          ELSE /\ conn' = [conn EXCEPT ![c].pc = "del_lockE", ![c].b = e]
               /\ UNCHANGED flock
    /\ UNCHANGED <<endpoints, hosts, elock, http, he, pipeVars, trieVars, sideVars>>

\* delBackend: b.lock.Lock()
DelLockE(c) ==
    /\ conn[c].pc = "del_lockE"
    /\ ELockFree(conn[c].b)
    /\ elock' = [elock EXCEPT ![conn[c].b].w = c]
    /\ conn' = [conn EXCEPT ![c].pc = "del_remove"]
    /\ UNCHANGED <<endpoints, hosts, flock, http, he, pipeVars, trieVars, sideVars>>

\* delBackend: the removal, then the deferred unlocks; ServeBackend returns.
DelRemove(c) ==
    /\ conn[c].pc = "del_remove"
    /\ hosts' = [hosts EXCEPT ![conn[c].b] = RemoveURL(@, conn[c].url)]
    /\ elock' = [elock EXCEPT ![conn[c].b].w = "none"]
    /\ flock' = [flock EXCEPT !.w = "none"]
    /\ conn' = [conn EXCEPT ![c] = Return(@, @.ret)]
    /\ UNCHANGED <<endpoints, http, he, pipeVars, trieVars, sideVars>>

\* An HTTP worker between two requests.
IdleReq ==
    [pc |-> "idle", ep |-> "none", avail |-> 0, from |-> "none", url |-> NoURL,
     wrote |-> <<>>, trips |-> 0, panic |-> "none"]

\* Endpoint.ServeHTTP on Endpoint object e: b.lock.RLock()
ServeRLock(h, e) ==
    /\ http[h].pc = "idle"
    /\ CanRLock(elock[e])
    /\ elock' = [elock EXCEPT ![e].r = @ \cup {h}]
    /\ http' = [http EXCEPT ![h].pc = "rlocked", ![h].ep = e]
    /\ UNCHANGED <<endpoints, hosts, flock, conn, he, pipeVars, trieVars, sideVars>>

\* avail := len(b.hosts); with none, 503 "Backend Unavailable" is written
\* and the function goes on (the if has no return).
ServeLen(h) ==
    /\ http[h].pc = "rlocked"
    /\ LET avail == Len(hosts[http[h].ep])
       IN http' = [http EXCEPT ![h].pc = "lenread", ![h].avail = avail,
                               ![h].wrote = IF avail = 0 THEN Append(@, 503) ELSE @]
    /\ UNCHANGED <<endpoints, hosts, flock, elock, conn, he, pipeVars, trieVars, sideVars>>

\* url := *b.hosts[rand.Intn(avail)]; b.lock.RUnlock().  rand.Intn panics
\* when avail is 0 and the index expression panics when i is outside the
\* list; a panic leaves the function with the read lock held (RUnlock is
\* not deferred).  i is the draw.
ServeIndex(h, i) ==
    /\ http[h].pc = "lenread"
    /\ LET e == http[h].ep
       IN IF http[h].avail = 0
          THEN /\ http' = [http EXCEPT ![h].pc = "panicked", ![h].panic = "rand.Intn"]
               /\ UNCHANGED elock
          ELSE IF i + 1 > Len(hosts[e])
          THEN /\ http' = [http EXCEPT ![h].pc = "panicked", ![h].panic = "index out of range"]
               /\ UNCHANGED elock
          ELSE /\ http' = [http EXCEPT ![h].pc = "picked", ![h].from = hosts[e][i + 1].ptr,
                                       ![h].url = [hosts[e][i + 1] EXCEPT !.ptr = h]]
               /\ elock' = [elock EXCEPT ![e].r = @ \ {h}]
    /\ UNCHANGED <<endpoints, hosts, flock, conn, he, pipeVars, trieVars, sideVars>>

\* b.RoundTrip(req) and the relay: 500 "Backend Error" when it fails, the
\* upstream status otherwise.
ServeRoundTrip(h, ok) ==
    /\ http[h].pc = "picked"
    /\ http' = [http EXCEPT ![h].pc = "done", ![h].trips = @ + 1,
                            ![h].avail = 0, ![h].from = "none", ![h].url = NoURL,
                            ![h].wrote = Append(@, IF ok THEN 200 ELSE 500)]
    /\ UNCHANGED <<endpoints, hosts, flock, elock, conn, he, pipeVars, trieVars, sideVars>>

\* ServeHTTP returns; the worker takes its next request.
ServeReturn(h) ==
    /\ http[h].pc = "done"
    /\ http' = [http EXCEPT ![h] = IdleReq]
    /\ UNCHANGED <<endpoints, hosts, flock, elock, conn, he, pipeVars, trieVars, sideVars>>

\* The Endpoint objects in f.endpoints.
Registered == {endpoints[i] : i \in 1..Len(endpoints)}

\* HandleEndpoint(b) up to the append: the default RoundTripper is set and
\* f.endpoints is read.  No lock is taken.
HandleEndpointBegin(e) ==
    /\ he.pc = "idle"
    /\ e \notin Registered
    /\ he' = [pc |-> "append", b |-> e]
    /\ UNCHANGED <<endpoints, hosts, flock, elock, conn, http, pipeVars, trieVars, sideVars>>

\* f.endpoints = append(f.endpoints, b), then f.Handle(b.Root, b).
HandleEndpointAppend ==
    /\ he.pc = "append"
    /\ endpoints' = Append(endpoints, he.b)
    /\ he' = [pc |-> "idle", b |-> "none"]
    /\ UNCHANGED <<hosts, flock, elock, conn, http, pipeVars, trieVars, sideVars>>

----------------------------------------------------------------------------
(* Spec: the registry under concurrent workers and arbitrary peers         *)

\* What the handshake decode can yield: an error or a RegisterBackend.
HandshakeInputs ==
    {[kind |-> "err", err |-> "EOF"]}
    \cup {[kind |-> "reg", Name |-> n, Host |-> h, Port |-> 1337] :
            n \in {"test", "aux"}, h \in {"", "fake"}}

\* conn.RemoteAddr(): a *net.TCPAddr or another net.Addr.
Peers == {[tcp |-> TRUE, ip |-> "10.0.0.5"], [tcp |-> FALSE, ip |-> ""]}

\* What enc.Encode can return.
EncodeOutcomes == {"ok", "ErrClosedPipe", "EPIPE"}

\* What dec.Decode(&pong) can yield.
DecodeOutcomes ==
    {[kind |-> "status", Nonce |-> n] : n \in Nonces}
    \cup {[kind |-> "err", err |-> e] : e \in {"EOF", "ErrClosedPipe", "ECONNRESET"}}

\* The variables the other specifications use, at rest.
TrieAtRest == trie = NewTrie(<<>>) /\ tres = [op |-> "none", count |-> 0]

PipeAtRest ==
    /\ be = [pc |-> "none"]
    /\ pipe = [toFE |-> <<>>, toBE |-> <<>>, beClosed |-> FALSE]
    /\ hook = [count |-> 0, closeAfter |-> 0, slept |-> FALSE]
    /\ wire = <<>>

\* No ServeBackends call: ServeBackend is called on each connection.
NoListener == [pc |-> "none", err |-> "nil"]

\* No ListBackends call is in progress.
NoLister == [pc |-> "idle", i |-> 0]

\* No DirCache is in use.
NoStatic == [clock |-> 0]

RegistryAtRest ==
    /\ endpoints = <<>>
    /\ hosts = [e \in EndpointIds |-> <<>>]
    /\ flock = Unlocked
    /\ elock = [e \in EndpointIds |-> Unlocked]
    /\ conn = [c \in Conns |-> NewConn]
    /\ http = [h \in Workers |-> IdleReq]
    /\ he = [pc |-> "idle", b |-> "none"]
    /\ listener = NoListener
    /\ lister = NoLister
    /\ static = NoStatic

Init == RegistryAtRest /\ PipeAtRest /\ TrieAtRest

\* The handshake, the ping and the pong against a peer that may send or
\* break anything.
PeerHandshake(c) ==
    /\ \E in \in HandshakeInputs, peer \in Peers : FeHandshake(c, in, peer)
    /\ UNCHANGED pipeVars

PeerPing(c) ==
    /\ \E n \in Nonces, out \in EncodeOutcomes : FePing(c, n, out)
    /\ UNCHANGED pipeVars

PeerPong(c) ==
    /\ \E in \in DecodeOutcomes : FePong(c, in)
    /\ UNCHANGED pipeVars

\* rand.Intn(avail): a draw below avail (the call panics when avail is 0).
ServeDraw(h) ==
    \E i \in 0..Cardinality(Conns) : (i < http[h].avail \/ i = 0) /\ ServeIndex(h, i)

Next ==
    \/ \E c \in Conns : PeerHandshake(c)
    \/ \E c \in Conns : AddLockF(c)
    \/ \E c \in Conns : AddScan(c)
    \/ \E c \in Conns : AddLockE(c)
    \/ \E c \in Conns : AddAppend(c)
    \/ \E c \in Conns : PeerPing(c)
    \/ \E c \in Conns : PeerPong(c)
    \/ \E c \in Conns : DelLockF(c)
    \/ \E c \in Conns : DelScan(c)
    \/ \E c \in Conns : DelLockE(c)
    \/ \E c \in Conns : DelRemove(c)
    \/ \E h \in Workers, e \in EndpointIds : ServeRLock(h, e)
    \/ \E h \in Workers : ServeLen(h)
    \/ \E h \in Workers : ServeDraw(h)
    \/ \E h \in Workers, ok \in BOOLEAN : ServeRoundTrip(h, ok)
    \/ \E h \in Workers : ServeReturn(h)
    \/ \E e \in EndpointIds : HandleEndpointBegin(e)
    \/ HandleEndpointAppend

Spec == Init /\ [][Next]_vars

----------------------------------------------------------------------------
(* Claims about the registry (Spec)                                        *)

\* The connections whose URL is in the hosts of Endpoint e.
PtrsIn(e) == {hosts[e][i].ptr : i \in 1..Len(hosts[e])}

\* The connections that completed addBackend on e and not yet delBackend.
Members(e) == {c \in Conns : conn[c].added.ep = e /\ conn[c].pc # "returned"}

DelPcs == {"del_lockF", "del_scan", "del_lockE", "del_remove"}

\* C1: once ServeBackend has returned, whatever ended it, the URL its
\* connection added is in no endpoint's hosts.
C1_ScopedRelease ==
    \A c \in Conns : conn[c].pc = "returned" => \A e \in EndpointIds : c \notin PtrsIn(e)

\* A worker that had registered returned "ping failed" while the other
\* connection's replica is still listed.
C1_Witness ==
    \E c \in Conns, e \in EndpointIds :
        /\ conn[c].pc = "returned"
        /\ conn[c].added.ep = e
        /\ conn[c].ret = "ping failed"
        /\ Len(hosts[e]) = 1

\* C2: an endpoint's hosts holds exactly one entry per connection that has
\* completed addBackend and not yet completed delBackend, each entry being
\* that connection's own URL.
C2_MembershipLifecycle ==
    \A e \in EndpointIds :
        /\ Len(hosts[e]) = Cardinality(Members(e))
        /\ PtrsIn(e) = Members(e)

\* Two connections registered the same host:port on one endpoint; the one
\* registered first has terminated and the other's entry is what is left.
C2_Witness ==
    \E c \in Conns, d \in Conns, e \in EndpointIds :
        /\ c # d
        /\ conn[c].pc = "returned"
        /\ conn[c].added = [ep |-> e, Host |-> <<"fake", 1337>>]
        /\ conn[d].added = conn[c].added
        /\ conn[d].pc = "ping"
        /\ hosts[e] = <<NewURL(d, "fake", 1337)>>

\* C3: a ServeHTTP call that finds no replica writes 503 and returns; it
\* does not panic.
C3_EmptyHostsNoPanic ==
    \A h \in Workers : 503 \in {http[h].wrote[i] : i \in 1..Len(http[h].wrote)}
                        => http[h].pc # "panicked"

\* C5: a connection on which a Status with another nonce than the ping's
\* was decoded ends with "ping/pong mismatch": it sends no further ping,
\* and once ServeBackend has returned the connection is closed and its
\* replica is gone.
C5_MismatchTerminates ==
    \A c \in Conns :
        /\ conn[c].forged <=> conn[c].ret = "ping/pong mismatch"
        /\ conn[c].forged =>
             /\ conn[c].pc \in DelPcs \cup {"returned"}
             /\ conn[c].pc = "returned" =>
                  /\ conn[c].closed
                  /\ \A e \in EndpointIds : c \notin PtrsIn(e)

\* A registered connection returned "ping/pong mismatch".
C5_Witness ==
    \E c \in Conns :
        /\ conn[c].forged
        /\ conn[c].pc = "returned"
        /\ conn[c].added # NotAdded

\* The read-locked section of ServeHTTP: the lock is held in it, and the
\* length it read is the length of the list while it draws the index.
ReadSectionOK(h) ==
    /\ http[h].pc \in {"rlocked", "lenread"} =>
         /\ h \in elock[http[h].ep].r
         /\ elock[http[h].ep].w = "none"
    /\ http[h].pc = "lenread" => http[h].avail = Len(hosts[http[h].ep])
    /\ http[h].panic # "index out of range"

\* C9: every change of an endpoint's hosts is made by the holder of that
\* endpoint's write lock, and the forwarder reads the length and copies the
\* URL inside one read-locked section, so its index is within the list.
C9_HostsUnderLock ==
    /\ [](\A h \in Workers : ReadSectionOK(h))
    /\ [][\A e \in EndpointIds :
            hosts'[e] # hosts[e] => elock[e].w \in Conns /\ elock[e].r = {}]_vars

\* A forwarder is between reading the length and drawing the index while a
\* delBackend waits for the write lock of the same endpoint.
C9_Witness ==
    \E h \in Workers, c \in Conns :
        /\ http[h].pc = "lenread"
        /\ http[h].avail > 0
        /\ conn[c].pc = "del_lockE"
        /\ conn[c].b = http[h].ep

\* C10: HandleEndpoint's access to f.endpoints is made under the frontend
\* lock, so it never overlaps a scan of the list by addBackend or
\* delBackend.
C10_EndpointsUnderLock ==
    he.pc = "append" =>
        /\ flock.w = "he"
        /\ \A c \in Conns : conn[c].pc \notin {"add_scan", "del_scan"}

\* The entries of e's hosts that are connection c's URL.
EntriesOf(e, c) == {i \in 1..Len(hosts[e]) : hosts[e][i].ptr = c}

\* The host the replica of a handshake gets: reg.Host, or the peer's IP when
\* reg.Host is empty.
ExpectedHost(r) == IF r.Host = "" THEN r.peer ELSE r.Host

\* C11: a connection whose handshake succeeded has, from addBackend's return
\* on, exactly one entry, in the hosts of the endpoint named as the
\* handshake's Name and in no other; the entry is http://<Host>:<Port>, the
\* host being the TCP peer's IP when Host was empty; once ServeBackend has
\* returned the entry is gone.
C11_HandshakeAddsReplica ==
    \A c \in Conns :
        /\ conn[c].pc \in {"ping", "pong"} => \E e \in EndpointIds : c \in PtrsIn(e)
        /\ \A e \in EndpointIds : c \in PtrsIn(e) =>
              /\ Cardinality(EntriesOf(e, c)) = 1
              /\ EpName(e) = conn[c].name
              /\ \A e2 \in EndpointIds \ {e} : c \notin PtrsIn(e2)
              /\ \A i \in EntriesOf(e, c) :
                    /\ hosts[e][i].Scheme = "http"
                    /\ hosts[e][i].Host = <<ExpectedHost(conn[c].reg), conn[c].reg.Port>>
              /\ conn[c].reg.Host = "" => conn[c].reg.peer = "10.0.0.5"
        /\ conn[c].pc = "returned" => \A e \in EndpointIds : c \notin PtrsIn(e)

\* Host was empty, the peer is 10.0.0.5, and "test" (not "aux", which is
\* registered too) holds http://10.0.0.5:1337 as its only replica.
C11_Witness ==
    \E c \in Conns :
        /\ conn[c].pc = "pong"
        /\ conn[c].reg = [Host |-> "", Port |-> 1337, peer |-> "10.0.0.5"]
        /\ conn[c].name = "test"
        /\ endpoints = <<"E2", "E1">>
        /\ hosts["E1"] = <<NewURL(c, "10.0.0.5", 1337)>>
        /\ hosts["E2"] = <<>>

\* The errors of a registration that failed.
RegErrs == {"handshake failed", "cannot infer source address", "unknown backend"}

\* No endpoint in f.endpoints is named name.
Unknown(name) == \A i \in 1..Len(endpoints) : EpName(endpoints[i]) # name

\* C12: a registration that fails (undecodable frame, Host empty with a
\* peer that is not TCP, Name of no endpoint: "unknown backend") makes
\* ServeBackend return an error with the connection closed; that step
\* changes no hosts list, the worker never appended a URL, it never reaches
\* the ping loop and does nothing afterwards.
C12_FailedRegistration ==
    /\ [](\A c \in Conns :
            /\ conn[c].ret \in RegErrs =>
                 /\ conn[c].pc = "returned"
                 /\ conn[c].closed
                 /\ conn[c].added = NotAdded
                 /\ \A e \in EndpointIds : c \notin PtrsIn(e)
            /\ conn[c].pc \in {"ping", "pong"} => conn[c].added # NotAdded)
    /\ [][\A c \in Conns :
            /\ conn[c].pc = "add_scan" /\ Unknown(conn[c].name) =>
                 conn'[c].pc = "add_scan" \/ conn'[c].ret = "unknown backend"
            /\ conn[c].pc = "handshake" /\ conn'[c].pc = "returned" =>
                 conn'[c].ret \in {"handshake failed", "cannot infer source address"}
            /\ conn[c].ret \notin RegErrs /\ conn'[c].ret \in RegErrs =>
                 /\ hosts' = hosts
                 /\ conn[c].pc \in {"handshake", "add_scan"}
            /\ conn[c].added # NotAdded => conn'[c].added = conn[c].added
            /\ conn[c].pc = "returned" => conn'[c] = conn[c]]_vars

\* One worker returned "unknown backend" although an endpoint (of another
\* name) is registered, the other could not infer the host.
C12_Witness ==
    \E c \in Conns, d \in Conns :
        /\ conn[c].ret = "unknown backend"
        /\ conn[d].ret = "cannot infer source address"
        /\ endpoints # <<>>

----------------------------------------------------------------------------
(* SpecTrie: Insert and Find on one trie                                   *)

\* The most Insert calls made on the trie.
MaxInserts == 3

\* Path segments: "a", "a/" and "b" ("a" is a proper prefix of "a/").
Segs == {<<"a">>, <<"a", "/">>, <<"b">>}

\* Segments below the first level.
SubSegs == {<<"a">>, <<"b">>}

\* Paths given to Insert: up to two segments.
InsertPaths ==
    {<<>>} \cup {<<x>> : x \in Segs} \cup {<<x, y>> : x \in Segs, y \in SubSegs}

\* Paths given to Find: up to three segments.
QueryPaths == InsertPaths \cup {<<x, y, <<"a">> >> : x \in Segs, y \in SubSegs}

InitTrie ==
    /\ trie \in {NewTrie(<<>>), NewDomainTrie}
    /\ tres = [op |-> "none", count |-> 0]
    /\ RegistryAtRest
    /\ PipeAtRest

\* t.Insert(paths, leaf), each call with a handler of its own.  tres holds
\* the last call; a Find leaves the trie as it is, so the calls that follow
\* a Find are explored from the state before it.
TrieInsert(paths) ==
    /\ tres.op # "find"
    /\ tres.count < MaxInserts
    /\ LET leaf == Handler(tres.count + 1)
           r == Insert(trie, paths, leaf)
       IN /\ trie' = r.t
          /\ tres' = [op |-> "insert", count |-> tres.count + 1, paths |-> paths,
                      leaf |-> leaf, err |-> r.err, before |-> trie]

\* t.Find(paths)
TrieFind(paths) ==
    /\ tres.op # "find"
    /\ LET r == Find(trie, paths)
       IN tres' = [op |-> "find", count |-> tres.count, paths |-> paths,
                   n |-> r.n, node |-> r.node, at |-> r.at]
    /\ UNCHANGED trie

NextTrie ==
    /\ \/ \E paths \in InsertPaths : TrieInsert(paths)
       \/ \E paths \in QueryPaths : TrieFind(paths)
    /\ UNCHANGED <<regVars, http, he, pipeVars, sideVars>>

SpecTrie == InitTrie /\ [][NextTrie]_vars

\* The child of t named name, as a set of child indices (empty: none).
ChildrenNamed(t, name) == {i \in 1..Len(t.Child) : t.Child[i].Name = name}

RECURSIVE Walk(_, _)
\* The chain of child indices that spells path from t, or <<0>> when some
\* segment has no child of its name.
Walk(t, path) ==
    IF path = <<>> THEN <<>>
    ELSE IF ChildrenNamed(t, path[1]) = {} THEN <<0>>
    ELSE LET i == CHOOSE j \in ChildrenNamed(t, path[1]) : TRUE
             rest == Walk(t.Child[i], Tail(path))
         IN IF rest = <<0>> THEN <<0>> ELSE <<i>> \o rest

RECURSIVE NodeAt(_, _)
\* The node reached from t by the chain of child indices at.
NodeAt(t, at) == IF at = <<>> THEN t ELSE NodeAt(t.Child[at[1]], Tail(at))

\* The lengths k >= 1 of the prefixes of q that spell a node with a leaf.
LeafDepths(t, q) ==
    {k \in 1..Len(q) :
        LET w == Walk(t, SubSeq(q, 1, k))
        IN w # <<0>> /\ NodeAt(t, w).Leaf # NilLeaf}

Max(S) == CHOOSE x \in S : \A y \in S : y <= x

\* C7: Find returns the deepest node with a non-nil leaf whose path from the
\* receiver is a prefix of the query, the receiver itself when there is
\* none, and n is the number of segments from the receiver to that node.
C7_FindDeepestLeaf ==
    tres.op = "find" =>
        LET d == LeafDepths(trie, tres.paths)
            k == IF d = {} THEN 0 ELSE Max(d)
        IN /\ tres.n = k
           /\ tres.at = Walk(trie, SubSeq(tres.paths, 1, k))
           /\ tres.node = NodeAt(trie, tres.at)

\* A Find that went two levels down, past a node without a leaf, and left a
\* query segment unconsumed.
C7_Witness ==
    /\ tres.op = "find"
    /\ tres.n = 2
    /\ Len(tres.paths) = 3
    /\ trie.Child[tres.at[1]].Leaf = NilLeaf

\* The names an error message spells before its final text.
ErrNames(err) == SelectSeq(err.path, LAMBDA s : s # <<>>)

\* C8: Insert at a path whose node already has a leaf fails with "leaf
\* already exists" prefixed by the traversed segments, and leaves the trie
\* exactly as it was.
C8_InsertExistingLeafRejected ==
    (/\ tres.op = "insert"
     /\ Walk(tres.before, tres.paths) # <<0>>
     /\ NodeAt(tres.before, Walk(tres.before, tres.paths)).Leaf # NilLeaf)
    => /\ tres.err.msg = "leaf already exists"
       /\ ErrNames(tres.err) = tres.paths
       /\ trie = tres.before

\* A second Insert at a two-segment path was rejected.
C8_Witness ==
    /\ tres.op = "insert"
    /\ Len(tres.paths) = 2
    /\ tres.err.msg = "leaf already exists"
    /\ NodeAt(trie, Walk(trie, tres.paths)).Leaf # tres.leaf

----------------------------------------------------------------------------
(* SpecConnect: ServeBackend against Backend.connect over net.Pipe, as     *)
(* TestConnect sets them up                                                *)

\* The largest count after which the Sleepish hook closes beConn (the test
\* uses 10).
MaxCycles == 10

\* The worker that serves feConn.
PipeConn == "c1"

\* feConn.RemoteAddr(): a pipe address, not a *net.TCPAddr.
PipePeer == [tcp |-> FALSE, ip |-> ""]

\* The frames gob puts on the connection.
RegFrame(b) == [kind |-> "reg", Name |-> b.Name, Host |-> b.Host, Port |-> b.Port]

StatusFrame(n) == [kind |-> "status", Nonce |-> n]

\* One entry of the history of frames written to the connection.
Sent(from, f) ==
    [from |-> from, kind |-> f.kind, Nonce |-> IF f.kind = "status" THEN f.Nonce ELSE 0]

\* feConn is closed by ServeBackend's deferred conn.Close().
FeClosed == conn[PipeConn].closed

\* A read on feConn returns: a frame is there or the other end is closed.
FeReadable == pipe.toFE # <<>> \/ pipe.beClosed

\* What the frontend's Decode yields.
FeDecoded ==
    IF pipe.toFE # <<>> THEN Head(pipe.toFE) ELSE [kind |-> "err", err |-> "EOF"]

\* A read on beConn returns: beConn is closed, a frame is there or feConn
\* is closed.
BeReadable == pipe.beClosed \/ pipe.toBE # <<>> \/ FeClosed

\* What the backend's Decode yields.
BeDecoded ==
    IF pipe.beClosed THEN [kind |-> "err", err |-> "ErrClosedPipe"]
    ELSE IF pipe.toBE # <<>> THEN Head(pipe.toBE)
    ELSE [kind |-> "err", err |-> "EOF"]

\* A write on either end fails once one end is closed.
WriteErr == IF pipe.beClosed \/ FeClosed THEN "ErrClosedPipe" ELSE "ok"

\* A slip: the backend answers with a Status of its own.
EchoStatusOther(ping) == StatusFrame(CHOOSE n \in Nonces : n # ping.Nonce)

\* enc.Encode(ping): the Status that was decoded is what is sent back.
EchoStatus(ping) == ping

\* connect returns ret; its deferred conn.Close() closes beConn.
BeReturn(ret) == [be EXCEPT !.pc = "returned", !.ret = ret, !.ping = StatusFrame(0)]

\* connect: enc.Encode(reg)
BeRegister ==
    /\ be.pc = "register"
    /\ IF WriteErr = "ok"
       THEN /\ be' = [be EXCEPT !.pc = "decode"]
            /\ pipe' = [pipe EXCEPT !.toFE = Append(@, RegFrame(be))]
            /\ wire' = Append(wire, Sent("be", RegFrame(be)))
       ELSE /\ be' = BeReturn("handshake failed")
            /\ pipe' = [pipe EXCEPT !.beClosed = TRUE]
            /\ UNCHANGED wire
    /\ UNCHANGED <<regVars, http, he, hook, trieVars, sideVars>>

\* connect: dec.Decode(&ping); EOF and ErrClosedPipe break out of the loop
\* and connect returns nil.
BeDecode ==
    /\ be.pc = "decode"
    /\ BeReadable
    /\ LET in == BeDecoded
       IN IF in.kind = "status"
          THEN /\ be' = [be EXCEPT !.pc = "encode", !.ping = in]
               /\ pipe' = [pipe EXCEPT !.toBE = Tail(@)]
          ELSE /\ be' = BeReturn(IF in.kind = "err" /\ CleanClose(in.err) THEN "nil"
                                 ELSE "status decode failed")
               /\ pipe' = [pipe EXCEPT !.beClosed = TRUE]
    /\ UNCHANGED <<regVars, http, he, hook, wire, trieVars, sideVars>>

\* connect: enc.Encode(ping); any error is returned.
BeEncode ==
    /\ be.pc = "encode"
    /\ IF WriteErr = "ok"
       THEN /\ be' = [be EXCEPT !.pc = "decode", !.ping = StatusFrame(0)]
            /\ pipe' = [pipe EXCEPT !.toFE = Append(@, EchoStatus(be.ping))]
            /\ wire' = Append(wire, Sent("be", EchoStatus(be.ping)))
       ELSE /\ be' = BeReturn("status encode failed")
            /\ pipe' = [pipe EXCEPT !.beClosed = TRUE]
            /\ UNCHANGED wire
    /\ UNCHANGED <<regVars, http, he, hook, trieVars, sideVars>>

\* The test's Sleepish: count++ and, past closeAfter, beConn.Close().
HookSleepish ==
    /\ conn[PipeConn].pc = "ping"
    /\ ~hook.slept
    /\ hook' = [hook EXCEPT !.count = @ + 1, !.slept = TRUE]
    /\ pipe' = [pipe EXCEPT !.beClosed = @ \/ hook.count + 1 > hook.closeAfter]
    /\ UNCHANGED <<regVars, http, he, be, wire, trieVars, sideVars>>

\* ServeBackend's dec.Decode(&reg) on feConn.
ConnHandshake ==
    /\ FeReadable
    /\ FeHandshake(PipeConn, FeDecoded, PipePeer)
    /\ pipe' = [pipe EXCEPT !.toFE = IF @ = <<>> THEN @ ELSE Tail(@)]
    /\ UNCHANGED <<be, hook, wire>>

\* ServeBackend's enc.Encode(ping) on feConn, after Sleepish returned.
ConnPing ==
    /\ hook.slept
    /\ \E n \in Nonces :
         /\ FePing(PipeConn, n, WriteErr)
         /\ pipe' = [pipe EXCEPT !.toBE =
                       IF WriteErr = "ok" THEN Append(@, StatusFrame(n)) ELSE @]
         /\ wire' = IF WriteErr = "ok" THEN Append(wire, Sent("fe", StatusFrame(n)))
                    ELSE wire
    /\ hook' = [hook EXCEPT !.slept = FALSE]
    /\ UNCHANGED be

\* ServeBackend's dec.Decode(&pong) on feConn.
ConnPong ==
    /\ FeReadable
    /\ FePong(PipeConn, FeDecoded)
    /\ pipe' = [pipe EXCEPT !.toFE = IF @ = <<>> THEN @ ELSE Tail(@)]
    /\ UNCHANGED <<be, hook, wire>>

\* TestConnect: the endpoint "test" is registered, then the two goroutines
\* start.  The Backend's Name and Host and the hook's threshold vary.
InitConnect ==
    /\ endpoints = <<"E1">>
    /\ hosts = [e \in EndpointIds |-> <<>>]
    /\ flock = Unlocked
    /\ elock = [e \in EndpointIds |-> Unlocked]
    /\ conn = [c \in Conns |-> NewConn]
    /\ http = [h \in Workers |-> IdleReq]
    /\ he = [pc |-> "idle", b |-> "none"]
    /\ listener = NoListener
    /\ lister = NoLister
    /\ static = NoStatic
    /\ TrieAtRest
    /\ \E n \in {"test", "aux"}, h \in {"", "fake"} :
         be = [pc |-> "register", Name |-> n, Host |-> h, Port |-> 1337,
               ping |-> StatusFrame(0), ret |-> "none"]
    /\ pipe = [toFE |-> <<>>, toBE |-> <<>>, beClosed |-> FALSE]
    /\ \E k \in 0..MaxCycles : hook = [count |-> 0, closeAfter |-> k, slept |-> FALSE]
    /\ wire = <<>>

NextConnect ==
    \/ BeRegister
    \/ BeDecode
    \/ BeEncode
    \/ HookSleepish
    \/ ConnHandshake
    \/ ConnPing
    \/ ConnPong
    \/ AddLockF(PipeConn)
    \/ AddScan(PipeConn)
    \/ AddLockE(PipeConn)
    \/ AddAppend(PipeConn)
    \/ DelLockF(PipeConn)
    \/ DelScan(PipeConn)
    \/ DelLockE(PipeConn)
    \/ DelRemove(PipeConn)

SpecConnect == InitConnect /\ [][NextConnect]_vars

\* The frames of the history sent by one side.
SentBy(from) == {i \in 1..Len(wire) : wire[i].from = from}

\* The pongs on the wire.
Pongs == {i \in SentBy("be") : wire[i].kind = "status"}

\* C4: on a connection the frontend sends no Status before the
\* RegisterBackend was decoded and addBackend succeeded, and at most one
\* ping is unanswered: the frames are one RegisterBackend, then frontend
\* ping and backend pong in strict alternation.
C4_ControlOrdering ==
    /\ Len(wire) > 0 => wire[1].from = "be" /\ wire[1].kind = "reg"
    /\ \A i \in 2..Len(wire) :
         /\ wire[i].kind = "status"
         /\ wire[i].from = (IF i % 2 = 0 THEN "fe" ELSE "be")
    /\ SentBy("fe") # {} => conn[PipeConn].added # NotAdded
    /\ Cardinality(SentBy("fe")) - Cardinality(Pongs) \in {0, 1}

\* Two full cycles went over the connection.
C4_Witness ==
    /\ Len(wire) >= 5
    /\ wire[2].from = "fe" /\ wire[3].from = "be" /\ wire[4].from = "fe"
    /\ conn[PipeConn].pc = "ping"

\* C6: with Backend.connect as the peer every pong carries the nonce of the
\* ping before it, the frontend's check never fails however many cycles run,
\* the connection never ends with a protocol error, and once the connection
\* is closed a registered ServeBackend and connect both return nil.
C6_HonestEcho ==
    /\ \A i \in Pongs : wire[i - 1].from = "fe" /\ wire[i].Nonce = wire[i - 1].Nonce
    /\ ~conn[PipeConn].forged
    /\ conn[PipeConn].ret \notin {"ping/pong mismatch", "pong decode", "ping failed"}
    /\ conn[PipeConn].pc = "returned" /\ conn[PipeConn].added # NotAdded
         => conn[PipeConn].ret = "nil" /\ Cardinality(Pongs) = hook.closeAfter
    /\ be.pc = "returned" => be.ret = "nil"

\* Both sides returned nil after the largest number of cycles.
C6_Witness ==
    /\ conn[PipeConn].pc = "returned" /\ conn[PipeConn].ret = "nil"
    /\ conn[PipeConn].added # NotAdded
    /\ be.pc = "returned" /\ be.ret = "nil"
    /\ Cardinality(Pongs) >= MaxCycles

----------------------------------------------------------------------------
(* ServeMux and Domain (src/trie/trie.go): strings                         *)

\* The first position of the character sep in s, 0 when s has none.
IndexOf(s, sep) ==
    IF \E i \in 1..Len(s) : s[i] = sep
    THEN CHOOSE i \in 1..Len(s) : s[i] = sep /\ \A j \in 1..(i - 1) : s[j] # sep
    ELSE 0

RECURSIVE Split(_, _)
\* strings.Split(s, sep) for a one-character sep.
Split(s, sep) ==
    LET i == IndexOf(s, sep)
    IN IF i = 0 THEN <<s>>
       ELSE <<SubSeq(s, 1, i - 1)>> \o Split(SubSeq(s, i + 1, Len(s)), sep)

RECURSIVE SplitAfter(_, _)
\* strings.SplitAfter(s, sep): every piece but the last keeps its sep.
SplitAfter(s, sep) ==
    LET i == IndexOf(s, sep)
    IN IF i = 0 THEN <<s>>
       ELSE <<SubSeq(s, 1, i)>> \o SplitAfter(SubSeq(s, i + 1, Len(s)), sep)

\* strings.TrimSuffix(s, "/")
TrimSlash(s) == IF HasSlashSuffix(s) THEN SubSeq(s, 1, Len(s) - 1) ELSE s

RECURSIVE Join(_, _)
\* strings.Join(list, sep)
Join(list, sep) ==
    IF list = <<>> THEN <<>>
    ELSE IF Len(list) = 1 THEN list[1]
    ELSE list[1] \o <<sep>> \o Join(Tail(list), sep)

\* reverse(s)
reverse(s) == [i \in 1..Len(s) |-> s[Len(s) - i + 1]]

RECURSIVE DropLeadingEmpty(_)
DropLeadingEmpty(s) ==
    IF Len(s) > 0 /\ s[1] = <<>> THEN DropLeadingEmpty(Tail(s)) ELSE s

RECURSIVE DropTrailingEmpty(_)
DropTrailingEmpty(s) ==
    IF Len(s) > 0 /\ s[Len(s)] = <<>> THEN DropTrailingEmpty(SubSeq(s, 1, Len(s) - 1))
    ELSE s

\* vaccuum(s): the empty strings at both ends are dropped.
vaccuum(s) == DropTrailingEmpty(DropLeadingEmpty(s))

RECURSIVE CleanStack(_, _, _)
\* The elements path.Clean keeps, left to right: ".." takes back the
\* element before it, is dropped at the root and is kept at the start of a
\* path that is not rooted.
CleanStack(elems, stack, rooted) ==
    IF elems = <<>> THEN stack
    ELSE LET e == Head(elems)
         IN IF e = <<".", ".">>
            THEN IF stack # <<>> /\ stack[Len(stack)] # <<".", ".">>
                 THEN CleanStack(Tail(elems), SubSeq(stack, 1, Len(stack) - 1), rooted)
                 ELSE IF rooted THEN CleanStack(Tail(elems), stack, rooted)
                 ELSE CleanStack(Tail(elems), Append(stack, e), rooted)
            ELSE CleanStack(Tail(elems), Append(stack, e), rooted)

\* path.Clean(p): slashes collapsed, "." elements dropped, ".." resolved,
\* no trailing slash except for the root, "." for an empty result.
Clean(p) ==
    LET rooted == Len(p) > 0 /\ p[1] = "/"
        elems == SelectSeq(Split(p, "/"), LAMBDA e : e # <<>> /\ e # <<".">>)
        out == (IF rooted THEN <<"/">> ELSE <<>>)
               \o Join(CleanStack(elems, <<>>, rooted), "/")
    IN IF out = <<>> THEN <<".">> ELSE out

----------------------------------------------------------------------------
(* ServeMux and Domain: Handle and ServeHTTP                               *)

\* A *Domain as a leaf of the outer trie; trie is its embedded Trie.
DomainLeaf(t) == [kind |-> "domain", trie |-> t]

\* http.HandlerFunc(addSlash)
AddSlashHandler == [kind |-> "addslash"]

\* NewServeMux(): the root leaf is the Domain of requests for any host.
NewServeMux == [Name |-> <<>>, Child |-> <<>>, Leaf |-> DomainLeaf(NewDomainTrie)]

RECURSIVE SetLeafAt(_, _, _)
\* The trie t with the leaf of the node at the chain of child indices `at`
\* replaced (a change made through the *Trie that Find returned).
SetLeafAt(t, at, leaf) ==
    IF at = <<>> THEN [t EXCEPT !.Leaf = leaf]
    ELSE [t EXCEPT !.Child[at[1]] = SetLeafAt(@, Tail(at), leaf)]

\* No panic.
NoPanic == [msg |-> "none"]

\* panic(err) with an error of Insert.
ErrPanic(err) == [msg |-> err.msg, path |-> err.path]

\* A slip: the redirect leaf is inserted first and an existing handler of
\* the slash-less path is replaced by it.
IndexLeafClobber(t, path) ==
    LET last == Len(path)
        bare == [path EXCEPT ![last] = TrimSlash(@)]
        at == Walk(t, bare)
    IN IF at = <<0>> THEN Insert(t, bare, AddSlashHandler).t
       ELSE SetLeafAt(t, at, AddSlashHandler)

\* The second Insert of the helper: the path with its last segment's slash
\* trimmed gets the addSlash handler; the error is dropped.
IndexLeaf(t, path) ==
    LET last == Len(path)
        bare == [path EXCEPT ![last] = TrimSlash(@)]
    IN Insert(t, bare, AddSlashHandler).t

\* The insert helper of Handle on trie t: [t, panic].
InsertHelper(t, pattern, path, handler) ==
    LET r == Insert(t, path, handler)
    IN IF r.err # NoErr THEN [t |-> r.t, panic |-> ErrPanic(r.err)]
       ELSE IF HasSlashSuffix(pattern)
       THEN IF path = <<>>
            THEN [t |-> r.t, panic |-> [msg |-> "index out of range"]]
            ELSE [t |-> IndexLeaf(r.t, path), panic |-> NoPanic]
       ELSE [t |-> r.t, panic |-> NoPanic]

\* The domain of a pattern, most general label first: the piece before the
\* first "/", split at the dots, the empty ends dropped, reversed.
PatternDomain(pattern) ==
    reverse(vaccuum(Split(TrimSlash(SplitAfter(pattern, "/")[1]), ".")))

\* The path of a pattern: the pieces after the first, the empty ends dropped.
PatternPath(pattern) == vaccuum(Tail(SplitAfter(pattern, "/")))

\* A slip: the pattern's domain is not looked at and the handler goes into
\* the Domain of requests for any host.
HandleInDefault(s, pattern, handler) ==
    LET r == InsertHelper(s.Leaf.trie, pattern, PatternPath(pattern), handler)
    IN [s |-> [s EXCEPT !.Leaf = DomainLeaf(r.t)], panic |-> r.panic]

\* ServeMux.Handle(pattern, handler) on the mux s: [s, panic], s being the
\* mux as the call leaves it.
Handle(s, pattern, handler) ==
    LET pieces == SplitAfter(pattern, "/")
    IN IF Len(pieces) < 2
       THEN [s |-> s, panic |-> [msg |-> "is not in <domain>/<path> form",
                                 pattern |-> pattern]]
       ELSE LET domain == PatternDomain(pattern)
                path == PatternPath(pattern)
                f == Find(s, domain)
            IN IF f.n # Len(domain)
               THEN LET r == InsertHelper(NewDomainTrie, pattern, path, handler)
                    IN IF r.panic # NoPanic THEN [s |-> s, panic |-> r.panic]
                       ELSE [s |-> Insert(s, domain, DomainLeaf(r.t)).t,
                             panic |-> NoPanic]
               ELSE IF f.node.Leaf.kind # "domain"
               THEN [s |-> s, panic |-> [msg |-> "interface conversion"]]
               ELSE LET r == InsertHelper(f.node.Leaf.trie, pattern, path, handler)
                    IN [s |-> SetLeafAt(s, f.at, DomainLeaf(r.t)), panic |-> r.panic]

\* url.URL.String() of a URL with no user, opaque part or fragment.
URLString(u) ==
    (IF u.Scheme # <<>> THEN u.Scheme \o <<":">> ELSE <<>>)
    \o (IF u.Scheme # <<>> \/ u.Host # <<>> THEN <<"/", "/">> \o u.Host ELSE <<>>)
    \o u.Path
    \o (IF u.RawQuery # <<>> THEN <<"?">> \o u.RawQuery ELSE <<>>)

\* What a call of ServeHTTP did: the status written, the Location header,
\* the registered handler that ran (0: none) and the panic, if any.
Response(code, loc, by) == [code |-> code, Location |-> loc, by |-> by, panic |-> "none"]

\* A slip: the scheme of the redirect is always http.
changeHostPlain(r, host) ==
    Response(302, URLString([r.URL EXCEPT !.Host = host, !.Scheme = <<"http">>]), 0)

\* changeHost: 302 to the same URL under host, https when r.TLS is set.
changeHost(r, host) ==
    Response(302,
             URLString([r.URL EXCEPT !.Host = host,
                           !.Scheme = IF r.TLS THEN <<"https">> ELSE <<"http">>]), 0)

\* A slip: the query is not carried over.
addSlashNoQuery(r) ==
    Response(302, URLString([r.URL EXCEPT !.Path = @ \o <<"/">>, !.RawQuery = <<>>]), 0)

\* addSlash: 302 to the same URL with "/" added to the path.
addSlash(r) == Response(302, URLString([r.URL EXCEPT !.Path = @ \o <<"/">>]), 0)

\* rewrite: 301 to the same URL with the given path.
rewrite(r, path) == Response(301, URLString([r.URL EXCEPT !.Path = path]), 0)

\* found.Leaf.ServeHTTP(w, r) for a leaf of a Domain's trie; calling a nil
\* handler panics.
LeafServeHTTP(leaf, r) ==
    CASE leaf.kind = "handler" -> Response(200, <<>>, leaf.id)
      [] leaf.kind = "notfound" -> Response(404, <<>>, 0)
      [] leaf.kind = "addslash" -> addSlash(r)
      [] OTHER -> [Response(0, <<>>, 0) EXCEPT !.panic = "nil handler"]

\* A slip: the path is not compared with its cleaned form.
NeedsRewriteNever(path, cleaned) == FALSE

\* r.URL.Path != cleaned
NeedsRewrite(path, cleaned) == path # cleaned

\* A slip: a leaf found above the request path serves it whatever its name.
MatchesAnyDepth(n, paths, found) == TRUE

\* The leaf serves the request: all segments were used or the node is a
\* directory.
Matches(n, paths, found) == n = Len(paths) \/ HasSlashSuffix(found.Name)

\* A slip: the path is cut with Split, so the segments lose their slashes.
RequestSegmentsBare(path) == vaccuum(Tail(Split(path, "/")))

\* The segments Domain.ServeHTTP looks up: the path cut after each "/",
\* without the piece before the first "/" and the empty ends.
RequestSegments(path) == vaccuum(Tail(SplitAfter(path, "/")))

\* Domain.ServeHTTP on the Domain whose trie is d.
DomainServeHTTP(d, r) ==
    LET cleaned == Clean(r.URL.Path)
                   \o (IF HasSlashSuffix(r.URL.Path) THEN <<"/">> ELSE <<>>)
    IN IF NeedsRewrite(r.URL.Path, cleaned) THEN rewrite(r, cleaned)
       ELSE LET paths == RequestSegments(r.URL.Path)
                f == Find(d, paths)
            IN IF ~Matches(f.n, paths, f.node) THEN Response(404, <<>>, 0)
               ELSE LeafServeHTTP(f.node.Leaf, r)

\* ServeMux.ServeHTTP on the mux s.
ServeHTTP(s, r) ==
    LET domain == reverse(Split(r.Host, "."))
        f == Find(s, domain)
    IN IF f.n > 0 /\ f.n # Len(domain)
       THEN changeHost(r, Join(reverse(SubSeq(domain, 1, f.n)), "."))
       ELSE IF f.node.Leaf.kind # "domain"
       THEN [Response(0, <<>>, 0) EXCEPT !.panic = "nil handler"]
       ELSE DomainServeHTTP(f.node.Leaf.trie, r)

----------------------------------------------------------------------------
(* SpecMux: Handle and ServeHTTP on one ServeMux                           *)

\* The most Handle calls made on the mux.
MaxHandles == 3

\* Patterns given to Handle: "/a", "/a/", "/a/b", "/a/b/", "/", "", "c.d",
\* "c.d/a", "c.d/", "c.d/a/" and "d/a".
Patterns ==
    {<<"/", "a">>, <<"/", "a", "/">>, <<"/", "a", "/", "b">>,
     <<"/", "a", "/", "b", "/">>, <<"/">>, <<>>, <<"c", ".", "d">>,
     <<"c", ".", "d", "/", "a">>, <<"c", ".", "d", "/">>,
     <<"c", ".", "d", "/", "a", "/">>, <<"d", "/", "a">>}

\* Request hosts: "c.d", "b.c.d", "b.c" and "d".
ReqHosts == {<<"c", ".", "d">>, <<"b", ".", "c", ".", "d">>, <<"b", ".", "c">>, <<"d">>}

\* Request paths: "/", "/a", "/a/", "/a/b", "/a/b/", "/a/b/c", "/a/c", "//",
\* "/a/../a", "/a//b", "/a/./" and "/a/../".
ReqPaths ==
    {<<"/">>, <<"/", "a">>, <<"/", "a", "/">>, <<"/", "a", "/", "b">>,
     <<"/", "a", "/", "b", "/">>, <<"/", "a", "/", "b", "/", "c">>,
     <<"/", "a", "/", "c">>, <<"/", "/">>,
     <<"/", "a", "/", ".", ".", "/", "a">>, <<"/", "a", "/", "/", "b">>,
     <<"/", "a", "/", ".", "/">>, <<"/", "a", "/", ".", ".", "/">>}

\* Request queries: none and "q".
ReqQueries == {<<>>, <<"q">>}

\* A request as the server hands it to ServeHTTP: r.URL holds the path and
\* the query only.
Request(host, path, query, tls) ==
    [Host |-> host, TLS |-> tls,
     URL |-> [Scheme |-> <<>>, Host |-> <<>>, Path |-> path, RawQuery |-> query]]

Requests ==
    {Request(h, p, q, t) : h \in ReqHosts, p \in ReqPaths, q \in ReqQueries, t \in BOOLEAN}

InitMux ==
    /\ trie = NewServeMux
    /\ tres = [op |-> "none", count |-> 0]
    /\ RegistryAtRest
    /\ PipeAtRest

\* mux.Handle(pattern, handler) with a handler of its own, the panic
\* recovered by the caller.  tres holds the last call.
MuxHandle(pattern) ==
    /\ tres.op # "serve"
    /\ tres.count < MaxHandles
    /\ LET leaf == Handler(tres.count + 1)
           r == Handle(trie, pattern, leaf)
       IN /\ trie' = r.s
          /\ tres' = [op |-> "handle", count |-> tres.count + 1, pattern |-> pattern,
                      leaf |-> leaf, panic |-> r.panic, before |-> trie]

\* mux.ServeHTTP(w, r)
MuxServe(r) ==
    /\ tres.op # "serve"
    /\ tres' = [op |-> "serve", count |-> tres.count, req |-> r,
                resp |-> ServeHTTP(trie, r)]
    /\ UNCHANGED trie

NextMux ==
    /\ \/ \E pattern \in Patterns : MuxHandle(pattern)
       \/ \E r \in Requests : MuxServe(r)
    /\ UNCHANGED <<regVars, http, he, pipeVars, sideVars>>

SpecMux == InitMux /\ [][NextMux]_vars

----------------------------------------------------------------------------
(* Claims about ServeMux (SpecMux)                                         *)

\* The leaf of the node that the names in path spell from t, NilLeaf when
\* there is no such node.
LeafAt(t, path) ==
    LET w == Walk(t, path)
    IN IF w = <<0>> THEN NilLeaf ELSE NodeAt(t, w).Leaf

\* The labels of a host name, most general first.
HostLabels(host) == reverse(Split(host, "."))

\* How many labels of host, from the most general on, spell a domain that
\* is registered in mux s (has a leaf).
RegisteredSuffixes(s, host) ==
    {k \in 1..Len(HostLabels(host)) : LeafAt(s, SubSeq(HostLabels(host), 1, k)) # NilLeaf}

\* host is itself a registered domain.
ExactDomain(s, host) == Len(HostLabels(host)) \in RegisteredSuffixes(s, host)

\* host is not registered and one of its parent domains is.
SubDomain(s, host) == ~ExactDomain(s, host) /\ RegisteredSuffixes(s, host) # {}

\* The trie of the Domain that answers for host when no redirect is due:
\* the Domain registered for host, else the any-domain Domain at the root.
DomainFor(s, host) ==
    IF ExactDomain(s, host) THEN LeafAt(s, HostLabels(host)).trie ELSE s.Leaf.trie

\* The trie of the Domain that a pattern's domain names in mux s, the
\* trie of a new Domain when it is not registered yet.
PatternTrie(s, pattern) ==
    LET leaf == LeafAt(s, PatternDomain(pattern))
    IN IF leaf.kind = "domain" THEN leaf.trie ELSE NewDomainTrie

\* pattern is registered in mux s: its node holds a handler given to Handle.
IsRegistered(s, pattern) ==
    LeafAt(PatternTrie(s, pattern), PatternPath(pattern)).kind = "handler"

\* The patterns "/a" and "/a/".
FilePattern == <<"/", "a">>

DirPattern == <<"/", "a", "/">>

\* The request is answered by the any-domain Domain: its host is no
\* registered domain and no sub-domain of one.
ToDefaultDomain(s, r) == ~ExactDomain(s, r.Host) /\ ~SubDomain(s, r.Host)

\* C13: "/a" and "/a/" can both be registered, in either order, without a
\* panic; then a request for /a runs the handler of "/a", and a request for
\* /a/ or for a path below it runs the handler of "/a/".
C13_DirAndDirSlash ==
    /\ (/\ tres.op = "handle"
        /\ tres.pattern \in {FilePattern, DirPattern}
        /\ ~IsRegistered(tres.before, tres.pattern))
       => tres.panic = NoPanic
    /\ (/\ tres.op = "serve"
        /\ IsRegistered(trie, FilePattern)
        /\ IsRegistered(trie, DirPattern)
        /\ ToDefaultDomain(trie, tres.req))
       => /\ tres.req.URL.Path = <<"/", "a">>
               => tres.resp.by = LeafAt(trie.Leaf.trie, << <<"a">> >>).id
          /\ tres.req.URL.Path \in {<<"/", "a", "/">>, <<"/", "a", "/", "c">>}
               => tres.resp.by = LeafAt(trie.Leaf.trie, << <<"a", "/">> >>).id

\* The query part of a Location: "?" and the query, nothing without one.
QuerySuffix(r) == IF r.URL.RawQuery # <<>> THEN <<"?">> \o r.URL.RawQuery ELSE <<>>

\* The segments q with a slash added to the last one.
AsDir(q) == [q EXCEPT ![Len(q)] = @ \o <<"/">>]

\* C14: where a pattern ending in "/" is registered and the path without
\* the slash has no handler, a request for that path gets 302 to the path
\* plus "/", the query kept; a handler that was registered at the path
\* without the slash is still there after the slash pattern is registered.
C14_DirRedirect ==
    /\ (/\ tres.op = "serve"
        /\ ~SubDomain(trie, tres.req.Host)
        /\ tres.req.URL.Path = Clean(tres.req.URL.Path)
        /\ LET q == RequestSegments(tres.req.URL.Path)
               d == DomainFor(trie, tres.req.Host)
           IN /\ q # <<>>
              /\ LeafAt(d, AsDir(q)).kind = "handler"
              /\ LeafAt(d, q).kind # "handler")
       => /\ tres.resp.code = 302
          /\ tres.resp.Location = tres.req.URL.Path \o <<"/">> \o QuerySuffix(tres.req)
          /\ tres.resp.by = 0
    /\ (/\ tres.op = "handle"
        /\ HasSlashSuffix(tres.pattern)
        /\ IsRegistered(tres.before, TrimSlash(tres.pattern)))
       => /\ IsRegistered(trie, TrimSlash(tres.pattern))
          /\ LeafAt(PatternTrie(trie, tres.pattern), PatternPath(TrimSlash(tres.pattern)))
               = LeafAt(PatternTrie(tres.before, tres.pattern),
                        PatternPath(TrimSlash(tres.pattern)))
          /\ ~IsRegistered(tres.before, tres.pattern) => tres.panic = NoPanic

\* "/a" was registered before "/a/" and is still there; /a/b, for which only
\* "/a/b/" is registered, is redirected to /a/b/?q.
C14_Witness ==
    /\ tres.op = "serve"
    /\ IsRegistered(trie, FilePattern)
    /\ IsRegistered(trie, DirPattern)
    /\ tres.req.URL.Path = <<"/", "a", "/", "b">>
    /\ tres.resp.code = 302
    /\ tres.resp.Location = <<"/", "a", "/", "b", "/", "?", "q">>

\* The lexically cleaned form of a request path: path.Clean's result, with
\* the trailing slash of the original kept.
CleanForm(p) ==
    IF HasSlashSuffix(p) /\ ~HasSlashSuffix(Clean(p)) THEN Clean(p) \o <<"/">>
    ELSE Clean(p)

\* C15: a request whose path differs from its cleaned form gets 301 to the
\* cleaned path, the query kept, and no registered handler runs.
C15_CleanRedirect ==
    (/\ tres.op = "serve"
     /\ ~SubDomain(trie, tres.req.Host)
     /\ tres.req.URL.Path # CleanForm(tres.req.URL.Path))
    => /\ tres.resp.code = 301
       /\ tres.resp.Location = CleanForm(tres.req.URL.Path) \o QuerySuffix(tres.req)
       /\ tres.resp.by = 0

\* The registered domain that host is a sub-domain of: the longest
\* registered run of its labels, written as a host name again.
CanonicalHost(s, host) ==
    Join(reverse(SubSeq(HostLabels(host), 1, Max(RegisteredSuffixes(s, host)))), ".")

ServingPrefixes(d, q) ==
    {k \in 1..Len(q) :
        /\ LeafAt(d, SubSeq(q, 1, k)) # NilLeaf
        /\ k = Len(q) \/ HasSlashSuffix(q[k])}

\* C17: inside a Domain a clean request path is served by the leaf
\* registered at exactly that path or, failing that, by the deepest
\* directory leaf above it; a request with neither gets 404 and runs no
\* handler.
C17_DispatchRule ==
    (/\ tres.op = "serve"
     /\ ~SubDomain(trie, tres.req.Host)
     /\ tres.req.URL.Path = CleanForm(tres.req.URL.Path))
    => LET q == vaccuum(Tail(SplitAfter(tres.req.URL.Path, "/")))
           d == DomainFor(trie, tres.req.Host)
           ks == ServingPrefixes(d, q)
       IN IF ks = {} THEN tres.resp.code = 404 /\ tres.resp.by = 0
          ELSE tres.resp = LeafServeHTTP(LeafAt(d, SubSeq(q, 1, Max(ks))), tres.req)

RECURSIVE DomainLeavesOK(_)
\* Every leaf in the outer trie t is a Domain whose root leaf is the 404
\* handler.
DomainLeavesOK(t) ==
    /\ t.Leaf # NilLeaf =>
         /\ t.Leaf.kind = "domain"
         /\ t.Leaf.trie.Leaf = NotFoundHandler
    /\ \A i \in 1..Len(t.Child) : DomainLeavesOK(t.Child[i])

\* C18: whatever Handle calls were made, failed ones included, the root
\* leaf of the mux and every domain leaf is a Domain with a non-nil root
\* leaf (the 404 handler); no ServeHTTP call meets a nil handler and no
\* Handle call meets a leaf that is not a Domain.
C18_DomainLeafNeverNil ==
    /\ trie.Leaf.kind = "domain"
    /\ DomainLeavesOK(trie)
    /\ tres.op = "serve" => tres.resp.panic = "none" /\ tres.resp.code # 0
    /\ tres.op = "handle" => tres.panic.msg # "interface conversion"

\* A request was served by the Domain of c.d after three Handle calls.
C18_Witness ==
    /\ tres.op = "serve"
    /\ tres.count = MaxHandles
    /\ tres.req.Host = <<"c", ".", "d">>
    /\ ExactDomain(trie, tres.req.Host)
    /\ tres.resp.code = 200

\* C19: Handle accepts a pattern of the form <domain>/<path> whose domain
\* or path or both are empty: on a new mux the call does not panic and
\* leaves the handler registered for the pattern.
C19_EmptyPartsAccepted ==
    (/\ tres.op = "handle"
     /\ tres.count = 1
     /\ IndexOf(tres.pattern, "/") # 0
     /\ PatternDomain(tres.pattern) = <<>> \/ PatternPath(tres.pattern) = <<>>)
    => /\ tres.panic = NoPanic
       /\ LeafAt(PatternTrie(trie, tres.pattern), PatternPath(tres.pattern)) = tres.leaf

\* C20: Handle of a pattern with no "/" panics with the message that the
\* pattern is not in <domain>/<path> form, and Handle of a pattern that is
\* registered already panics with "leaf already exists" under the names of
\* its path; both leave the mux as it was.
C20_MalformedOrDuplicate ==
    tres.op = "handle" =>
        /\ IndexOf(tres.pattern, "/") = 0 =>
             /\ tres.panic = [msg |-> "is not in <domain>/<path> form",
                              pattern |-> tres.pattern]
             /\ trie = tres.before
        /\ IsRegistered(tres.before, tres.pattern) =>
             /\ tres.panic.msg = "leaf already exists"
             /\ ErrNames(tres.panic) = PatternPath(tres.pattern)
             /\ trie = tres.before

\* "c.d/a/" was registered a second time, after another pattern.
C20_Witness ==
    /\ tres.op = "handle"
    /\ tres.count = MaxHandles
    /\ tres.pattern = <<"c", ".", "d", "/", "a", "/">>
    /\ IsRegistered(tres.before, tres.pattern)
    /\ tres.panic.msg = "leaf already exists"
    /\ tres.before.Child # <<>>

----------------------------------------------------------------------------
(* Endpoint.ServeHTTP: the backend request and the relayed response        *)

\* The last position of the character sep in s, 0 when s has none.
LastIndexOf(s, sep) ==
    IF \E i \in 1..Len(s) : s[i] = sep
    THEN CHOOSE i \in 1..Len(s) : s[i] = sep /\ \A j \in (i + 1)..Len(s) : s[j] # sep
    ELSE 0

NoSplit(err) == [host |-> <<>>, port |-> <<>>, err |-> err]

\* net.SplitHostPort(hostport): the host before the last colon, in
\* brackets when it holds colons itself; host and port are empty on an
\* error.
SplitHostPort(hostport) ==
    LET i == LastIndexOf(hostport, ":")
        end == IndexOf(hostport, "]")
        bracket == hostport # <<>> /\ hostport[1] = "["
        host == IF bracket THEN SubSeq(hostport, 2, end - 1) ELSE SubSeq(hostport, 1, i - 1)
        j == IF bracket THEN 2 ELSE 1
        k == IF bracket THEN end + 1 ELSE 1
    IN IF i = 0 THEN NoSplit("missing port in address")
       ELSE IF bracket /\ end = 0 THEN NoSplit("missing ']' in address")
       ELSE IF bracket /\ end = Len(hostport) THEN NoSplit("missing port in address")
       ELSE IF bracket /\ end + 1 # i
            THEN IF hostport[end + 1] = ":" THEN NoSplit("too many colons in address")
                 ELSE NoSplit("missing port in address")
       ELSE IF ~bracket /\ IndexOf(host, ":") # 0 THEN NoSplit("too many colons in address")
       ELSE IF IndexOf(SubSeq(hostport, j, Len(hostport)), "[") # 0
            THEN NoSplit("unexpected '[' in address")
       ELSE IF IndexOf(SubSeq(hostport, k, Len(hostport)), "]") # 0
            THEN NoSplit("unexpected ']' in address")
       ELSE [host |-> host, port |-> SubSeq(hostport, i + 1, Len(hostport)), err |-> "nil"]

\* The headers the switch of ServeHTTP passes through.
PassThrough ==
    {"Accept", "Accept-Language", "Content-Type", "Authorization", "Referer",
     "User-Agent", "Cookie", "ETag", "Etag", "Cache-Control", "If-Modified-Since",
     "If-Unmodified-Since", "If-Match", "If-None-Match"}

\* The headers the switch of ServeHTTP ignores without a log line.
SilentlyDropped ==
    {"Accept-Charset", "Accept-Encoding", "Accept-Datetime", "Content-MD5", "Via",
     "Connection"}

\* The base headers, set before the client's headers are looked at.
BaseHeaders(b, original) ==
    LET ip == SplitHostPort(original.RemoteAddr).host
        proto == IF original.TLS THEN "https" ELSE "http"
    IN [hdr \in {"Host", "X-Forwarded-For", "X-Forwarded-Proto", "X-Gofr-Backend",
                 "X-Gofr-Backend-Root"} |->
           CASE hdr = "Host" -> original.Host
             [] hdr = "X-Forwarded-For" -> ip
             [] hdr = "X-Forwarded-Proto" -> proto
             [] hdr = "X-Gofr-Backend" -> b.Name
             [] OTHER -> b.Root]

\* A slip: StripHeader is not looked at.
HeaderVerdictIgnoringStrip(b, hdr) ==
    IF hdr \in b.AllowHeader THEN "allow"
    ELSE IF hdr \in PassThrough THEN "pass"
    ELSE IF hdr \in SilentlyDropped THEN "ignore"
    ELSE "block"

\* One round of the header loop: what becomes of client header hdr.
\* StripHeader and AllowHeader are the names their maps hold as true.
HeaderVerdict(b, hdr) ==
    IF hdr \in b.StripHeader THEN "strip"
    ELSE IF hdr \in b.AllowHeader THEN "allow"
    ELSE IF hdr \in PassThrough THEN "pass"
    ELSE IF hdr \in SilentlyDropped THEN "ignore"
    ELSE "block"

\* The header map after the loop over original.Header: each copied header
\* is stored under its own name, over a base header of that name.
BackendHeaders(b, original) ==
    LET base == BaseHeaders(b, original)
        copied == {hdr \in DOMAIN original.Header : HeaderVerdict(b, hdr) \in {"allow", "pass"}}
    IN [hdr \in DOMAIN base \cup copied |->
           IF hdr \in copied THEN original.Header[hdr] ELSE base[hdr]]

Min(a, b) == IF a < b THEN a ELSE b

\* A slip: the declared length is cut, the body is not.
LimitBodyCountOnly(b, body, length) ==
    IF b.BodySizeLimit > 0
    THEN [Body |-> body, ContentLength |-> Min(length, b.BodySizeLimit)]
    ELSE [Body |-> body, ContentLength |-> length]

\* The body size limit: io.LimitReader(req.Body, max) hands the backend
\* the first max bytes, and a larger declared length is cut to max.
LimitBody(b, body, length) ==
    IF b.BodySizeLimit > 0
    THEN [Body |-> SubSeq(body, 1, Min(Len(body), b.BodySizeLimit)),
          ContentLength |-> IF length > b.BodySizeLimit THEN b.BodySizeLimit ELSE length]
    ELSE [Body |-> body, ContentLength |-> length]

\* A slip: url is the pointer b.hosts[i] itself, and the path and the query
\* are written into the URL that hosts keeps.
ChooseURLInPlace(list, i, original) ==
    LET url == [list[i + 1] EXCEPT !.Path = original.URL.Path,
                                   !.RawQuery = original.URL.RawQuery]
    IN [url |-> url, hosts |-> [list EXCEPT ![i + 1] = url]]

\* url := *b.hosts[i], a copy of the URL value, then url.Path and
\* url.RawQuery are set from the client's request: [url, hosts], hosts
\* being b.hosts as these lines leave it.
ChooseURL(list, i, original) ==
    [url |-> [list[i + 1] EXCEPT !.Path = original.URL.Path,
                                 !.RawQuery = original.URL.RawQuery],
     hosts |-> list]

\* The request handed to b.RoundTrip: URL is &url, the copy with the
\* client's path and query; the header map and the limited body.
BackendRequest(b, url, original) ==
    LET limited == LimitBody(b, original.Body, original.ContentLength)
    IN [Method |-> original.Method,
        URL |-> [Scheme |-> url.Scheme, Host |-> url.Host,
                 Path |-> url.Path, RawQuery |-> url.RawQuery],
        Header |-> BackendHeaders(b, original),
        Body |-> limited.Body,
        ContentLength |-> limited.ContentLength]

\* What http.Error(w, msg, code) leaves on the ResponseWriter.
HTTPError(msg, code) ==
    [Code |-> code, Header |-> [k \in {"Content-Type"} |-> "text/plain; charset=utf-8"],
     Body |-> msg]

\* The base response headers, under the keys Header.Set stores them.
BaseResponseHeaders ==
    [k \in {"X-Frame-Options", "X-Xss-Protection"} |->
        IF k = "X-Frame-Options" THEN "sameorigin" ELSE "1; mode=block"]

\* The relay of a response: the base headers are set first, then every
\* header of resp is stored under its key, then the status is written and
\* the body copied.
Relay(resp) ==
    [Code |-> resp.StatusCode,
     Header |-> [k \in DOMAIN BaseResponseHeaders \cup DOMAIN resp.Header |->
                    IF k \in DOMAIN resp.Header THEN resp.Header[k]
                    ELSE BaseResponseHeaders[k]],
     Body |-> resp.Body]

NoRequest == [Method |-> "none"]

\* A ServeHTTP that tries the next replica after a failed round trip.
EndpointServeHTTPRetry(b, list, original, i, rt) ==
    IF Len(list) = 0
    THEN [req |-> NoRequest, wrote |-> <<HTTPError("Backend Unavailable", 503)>>,
          trips |-> <<>>, panic |-> "rand.Intn", locked |-> TRUE, hosts |-> list]
    ELSE LET chosen == ChooseURL(list, i, original)
             req == BackendRequest(b, chosen.url, original)
             other == list[((i + 1) % Len(list)) + 1]
         IN [req |-> req,
             wrote |-> IF rt.err # "nil" THEN <<HTTPError("Backend Error", 500)>>
                       ELSE <<Relay(rt.resp)>>,
             trips |-> IF rt.err # "nil" THEN <<list[i + 1].ptr, other.ptr>>
                       ELSE <<list[i + 1].ptr>>,
             panic |-> "none", locked |-> FALSE, hosts |-> chosen.hosts]

\* Endpoint.ServeHTTP(w, original) as one call, with replicas list, draw
\* i of rand.Intn and rt the outcome RoundTrip would have.  wrote lists the
\* responses written to w; locked tells whether the call ends holding the
\* read lock; hosts is b.hosts as the call leaves it.
EndpointServeHTTP(b, list, original, i, rt) ==
    IF Len(list) = 0
    THEN [req |-> NoRequest, wrote |-> <<HTTPError("Backend Unavailable", 503)>>,
          trips |-> <<>>, panic |-> "rand.Intn", locked |-> TRUE, hosts |-> list]
    ELSE LET chosen == ChooseURL(list, i, original)
             req == BackendRequest(b, chosen.url, original)
         IN [req |-> req,
             wrote |-> IF rt.err # "nil" THEN <<HTTPError("Backend Error", 500)>>
                       ELSE <<Relay(rt.resp)>>,
             trips |-> <<list[i + 1].ptr>>, panic |-> "none", locked |-> FALSE,
             hosts |-> chosen.hosts]

----------------------------------------------------------------------------
(* Endpoint.ServeHTTP, one call on each request                           *)

MaxLimit == 3
MaxBody == 4

\* Endpoint.Root of each Endpoint object.
EpRoot(e) ==
    CASE e = "E1" -> "/test" [] e = "E3" -> "/other" [] e = "E4" -> "/anon" [] OTHER -> "/aux"

\* An Endpoint as configured by its owner.
EndpointConfig(e, allow, strip, limit) ==
    [id |-> e, Name |-> EpName(e), Root |-> EpRoot(e), AllowHeader |-> allow,
     StripHeader |-> strip, BodySizeLimit |-> limit]

\* Client header names: one the switch passes, one it ignores, one it
\* does not know and one of the base headers.
FwdNames == {"Accept", "Via", "AllowThis", "X-Forwarded-For"}

ClientHeader(names) ==
    [hdr \in names |->
        IF hdr = "X-Forwarded-For" THEN <<"6", ".", "6", ".", "6", ".", "6">> ELSE "client"]

\* "1.2.3.4:5678", "[::1]:80", "1.2.3.4" and "::1:80"
RemoteAddrs ==
    {<<"1", ".", "2", ".", "3", ".", "4", ":", "5", "6", "7", "8">>,
     <<"[", ":", ":", "1", "]", ":", "8", "0">>,
     <<"1", ".", "2", ".", "3", ".", "4">>,
     <<":", ":", "1", ":", "8", "0">>}

TestAddr == <<"1", ".", "2", ".", "3", ".", "4", ":", "5", "6", "7", "8">>

\* A body of n bytes, all different.
BodyOf(n) == [i \in 1..n |-> i]

\* The request of TestEndpointRequest: GET /foo?q for fakehost.
ClientRequest(addr, tls, names, n, length) ==
    [Method |-> "GET", Host |-> "fakehost", RemoteAddr |-> addr, TLS |-> tls,
     URL |-> [Path |-> "/foo", RawQuery |-> "q"], Header |-> ClientHeader(names),
     Body |-> BodyOf(n), ContentLength |-> length]

\* What the backend may answer: no answer, or a status with some headers.
UpstreamHeader(names) ==
    [k \in names |-> CASE k = "X-Frame-Options" -> "allowall"
                       [] k = "X-Xss-Protection" -> "0"
                       [] OTHER -> "text/html"]

RoundTrips ==
    {[err |-> "connection refused"]}
    \cup {[err |-> "nil",
           resp |-> [StatusCode |-> code, Header |-> UpstreamHeader(names), Body |-> "body"]] :
            code \in {200, 404},
            names \in SUBSET {"X-Frame-Options", "X-Xss-Protection", "Content-Type"}}

PlainOK ==
    [err |-> "nil",
     resp |-> [StatusCode |-> 200, Header |-> UpstreamHeader({}), Body |-> "body"]]

ForwardCall(b, original, i, rt) == [b |-> b, original |-> original, i |-> i, rt |-> rt]

\* The calls made: every header policy on every client header set, every
\* header of the two tables alone, every remote address, every limit on
\* every body, every answer of the backend
\* from either replica, and a call on the endpoint without replicas.
ForwardCalls ==
    {ForwardCall(EndpointConfig("E1", allow, strip, 0),
                 ClientRequest(TestAddr, TRUE, names, 1, 1), 0, PlainOK) :
        allow \in SUBSET FwdNames, strip \in SUBSET FwdNames, names \in SUBSET FwdNames}
    \cup {ForwardCall(EndpointConfig("E1", IF allow THEN {hdr} ELSE {},
                                     IF strip THEN {hdr} ELSE {}, 0),
                      ClientRequest(TestAddr, TRUE, {hdr}, 1, 1), 0, PlainOK) :
            hdr \in PassThrough \cup SilentlyDropped, allow \in BOOLEAN, strip \in BOOLEAN}
    \cup {ForwardCall(EndpointConfig("E1", {}, {}, 0),
                      ClientRequest(addr, tls, names, 1, 1), 0, PlainOK) :
            addr \in RemoteAddrs, tls \in BOOLEAN, names \in {{}, {"X-Forwarded-For"}}}
    \cup {ForwardCall(EndpointConfig("E1", {}, {}, limit),
                      ClientRequest(TestAddr, TRUE, {}, n, length), 0, PlainOK) :
            limit \in 0..MaxLimit, n \in 0..MaxBody, length \in (-1)..(MaxBody + 1)}
    \cup {ForwardCall(EndpointConfig("E1", {}, {}, 0),
                      ClientRequest(TestAddr, TRUE, {}, 1, 1), i, rt) :
            i \in {0, 1}, rt \in RoundTrips}
    \cup {ForwardCall(EndpointConfig("E2", {}, {}, 0),
                      ClientRequest(TestAddr, tls, {}, 1, 1), 0, PlainOK) : tls \in BOOLEAN}

\* The most calls of ServeHTTP made one after the other.
MaxForwards == 2

\* The calls made after the first: either replica, every answer.
RepeatCalls ==
    {ForwardCall(EndpointConfig("E1", {}, {}, 0),
                 ClientRequest(TestAddr, TRUE, {}, 1, 1), i, rt) :
        i \in {0, 1}, rt \in RoundTrips}

\* A replica as TestEndpointRequest sets it up: a URL with a path of its
\* own.
ReplicaURL(c, scheme, port) ==
    [ptr |-> c, Scheme |-> scheme, Host |-> <<"hostname", port>>,
     Path |-> "/some/path", RawQuery |-> ""]

\* The replicas of TestEndpointRequest's Endpoint, and a second one.
TestHosts == <<ReplicaURL("c1", "fake", 80), ReplicaURL("c2", "http", 81)>>

\* E1 has two replicas, E2 none.
InitForward ==
    /\ endpoints = <<"E1", "E2">>
    /\ hosts = [e \in EndpointIds |-> IF e = "E1" THEN TestHosts ELSE <<>>]
    /\ flock = Unlocked
    /\ elock = [e \in EndpointIds |-> Unlocked]
    /\ conn = [c \in Conns |-> NewConn]
    /\ http = [h \in Workers |-> IdleReq]
    /\ he = [pc |-> "idle", b |-> "none"]
    /\ listener = NoListener
    /\ lister = NoLister
    /\ static = NoStatic
    /\ PipeAtRest
    /\ TrieAtRest

\* Worker h1 serves a call; tres holds the last call and what came of it.
ForwardServe(call) ==
    /\ tres.count < MaxForwards
    /\ tres.count > 0 => call \in RepeatCalls
    /\ LET e == call.b.id
           out == EndpointServeHTTP(call.b, hosts[e], call.original, call.i, call.rt)
       IN /\ tres' = [op |-> "forward", count |-> tres.count + 1, call |-> call,
                      out |-> out]
          /\ elock' = IF out.locked THEN [elock EXCEPT ![e].r = @ \cup {"h1"}] ELSE elock
          /\ hosts' = [hosts EXCEPT ![e] = out.hosts]

NextForward ==
    /\ \E call \in ForwardCalls : ForwardServe(call)
    /\ UNCHANGED <<trie, endpoints, flock, conn, http, he, pipeVars, sideVars>>

SpecForward == InitForward /\ [][NextForward]_vars

----------------------------------------------------------------------------
(* Endpoint.ServeHTTP: claims                                              *)

\* A finished call that reached the round trip.
Forwarded == tres.op = "forward" /\ tres.out.panic = "none"

\* C21: every client header is copied to the backend request when
\* AllowHeader names it or the pass-through table holds it, and is not in
\* the backend request when the silently-dropped table holds it or no
\* table does; a header StripHeader names is never forwarded, whatever
\* AllowHeader and the pass-through table say.
C21_HeaderPolicy ==
    Forwarded =>
        LET b == tres.call.b
            client == tres.call.original.Header
            sent == tres.out.req.Header
            passed == {"Accept", "Accept-Language", "Content-Type", "Authorization",
                       "Referer", "User-Agent", "Cookie", "ETag", "Etag", "Cache-Control",
                       "If-Modified-Since", "If-Unmodified-Since", "If-Match",
                       "If-None-Match"}
            copied(hdr) == hdr \in DOMAIN sent /\ sent[hdr] = client[hdr]
            absent(hdr) == hdr \notin DOMAIN sent \/ sent[hdr] # client[hdr]
        IN \A hdr \in DOMAIN client :
              IF hdr \in b.StripHeader THEN absent(hdr)
              ELSE IF hdr \in b.AllowHeader \cup passed THEN copied(hdr)
              ELSE absent(hdr)

C21_Witness ==
    /\ Forwarded
    /\ DOMAIN tres.call.original.Header = FwdNames
    /\ tres.call.b.StripHeader = {"Accept"}
    /\ tres.call.b.AllowHeader = {"Accept", "AllowThis"}
    /\ "AllowThis" \in DOMAIN tres.out.req.Header
    /\ "Accept" \notin DOMAIN tres.out.req.Header
    /\ "Via" \notin DOMAIN tres.out.req.Header

\* The five headers ServeHTTP computes itself.
BaseNames ==
    {"Host", "X-Forwarded-For", "X-Forwarded-Proto", "X-Gofr-Backend", "X-Gofr-Backend-Root"}

\* C22: whatever headers the client sends and whatever AllowHeader and
\* StripHeader hold, the backend request carries the client's Host, the
\* host part of the remote address as X-Forwarded-For, https exactly for a
\* TLS request as X-Forwarded-Proto, the endpoint's name and its root, and
\* the same request without its client headers of those five names yields
\* the same five values.
C22_BaseHeadersForced ==
    Forwarded =>
        LET b == tres.call.b
            o == tres.call.original
            sent == tres.out.req.Header
            bare == [o EXCEPT !.Header = ClientHeader(DOMAIN o.Header \ BaseNames)]
        IN /\ BaseNames \subseteq DOMAIN sent
           /\ sent["Host"] = o.Host
           /\ sent["X-Forwarded-For"] = SplitHostPort(o.RemoteAddr).host
           /\ sent["X-Forwarded-Proto"] = (IF o.TLS THEN "https" ELSE "http")
           /\ sent["X-Gofr-Backend"] = b.Name
           /\ sent["X-Gofr-Backend-Root"] = b.Root
           /\ \A hdr \in BaseNames : BackendHeaders(b, bare)[hdr] = sent[hdr]

\* C23: a relayed response carries X-Frame-Options: sameorigin and
\* X-XSS-Protection: 1; mode=block, whether the upstream response leaves
\* them out or sets them to something else.
C23_ResponseHeadersForced ==
    (Forwarded /\ tres.call.rt.err = "nil") =>
        LET w == tres.out.wrote[1]
        IN /\ {"X-Frame-Options", "X-Xss-Protection"} \subseteq DOMAIN w.Header
           /\ w.Header["X-Frame-Options"] = "sameorigin"
           /\ w.Header["X-Xss-Protection"] = "1; mode=block"

\* C24: a failed round trip ends the call with 500 "Backend Error"; every
\* call makes at most one round trip, to the replica it drew and to no
\* other, and writes exactly one status: 503, 500 or the status of the
\* upstream response.
C24_OneTripOneStatus ==
    tres.op = "forward" =>
        LET out == tres.out
            rt == tres.call.rt
            list == hosts[tres.call.b.id]
        IN /\ Len(out.trips) <= 1
           /\ Len(out.wrote) = 1
           /\ out.trips # <<>> => out.trips[1] = list[tres.call.i + 1].ptr
           /\ IF out.trips = <<>> THEN out.wrote[1].Code = 503
              ELSE IF rt.err # "nil"
                   THEN out.wrote[1].Code = 500 /\ out.wrote[1].Body = "Backend Error"
              ELSE out.wrote[1].Code = rt.resp.StatusCode

C24_Witness ==
    /\ tres.op = "forward"
    /\ tres.call.rt.err # "nil"
    /\ tres.call.i = 1
    /\ tres.out.trips = <<"c2">>
    /\ tres.out.wrote[1].Code = 500

\* C25: with BodySizeLimit L > 0 the backend reads the first min(B, L)
\* bytes of a body of B bytes and is told the length min(C, L) for a
\* declared length C; with L = 0 it reads the whole body and is told C.
C25_BodyLimit ==
    Forwarded =>
        LET L == tres.call.b.BodySizeLimit
            body == tres.call.original.Body
            C == tres.call.original.ContentLength
            req == tres.out.req
            least(x, y) == CHOOSE m \in {x, y} : m <= x /\ m <= y
        IN /\ L > 0 => /\ Len(req.Body) = least(Len(body), L)
                       /\ \A i \in 1..Len(req.Body) : req.Body[i] = body[i]
                       /\ req.ContentLength = least(C, L)
           /\ L = 0 => req.Body = body /\ req.ContentLength = C

C25_Witness ==
    /\ Forwarded
    /\ tres.call.b.BodySizeLimit = 2
    /\ Len(tres.call.original.Body) = 3
    /\ tres.call.original.ContentLength = 3
    /\ tres.out.req.Body = <<1, 2>>
    /\ tres.out.req.ContentLength = 2

----------------------------------------------------------------------------
(* Frontend.ServeBackends: the accept loop and its workers                 *)

\* What l.Accept() may fail with.
AcceptErrs == {"use of closed network connection", "too many open files"}

\* A slip: ServeBackend is called in the loop itself, not in a goroutine
\* of its own, and its error ends the loop.
AcceptInline(c) ==
    /\ listener.pc = "accept"
    /\ conn[c].pc = "pending"
    /\ \A d \in Conns \ {c} :
          conn[d].pc = "pending" \/ (conn[d].pc = "returned" /\ conn[d].ret = "nil")
    /\ conn' = [conn EXCEPT ![c].pc = "handshake"]
    /\ UNCHANGED <<endpoints, hosts, flock, elock, http, he, pipeVars, trieVars, sideVars>>

\* conn, err := l.Accept() yields connection c, and the loop starts the
\* goroutine that calls f.ServeBackend(conn, pingDelay) and goes on.
Accept(c) ==
    /\ listener.pc = "accept"
    /\ conn[c].pc = "pending"
    /\ conn' = [conn EXCEPT ![c].pc = "handshake"]
    /\ UNCHANGED <<endpoints, hosts, flock, elock, http, he, pipeVars, trieVars, sideVars>>

\* l.Accept() fails: ServeBackends returns the error.  The workers
\* started before go on.
AcceptFails(err) ==
    /\ listener.pc = "accept"
    /\ listener' = [pc |-> "returned", err |-> err]
    /\ UNCHANGED <<regVars, http, he, pipeVars, trieVars, lister, static>>

\* ServeBackends is running on a listener with two connections to come;
\* one endpoint, "test", is registered.
InitAccept ==
    /\ endpoints = <<"E1">>
    /\ hosts = [e \in EndpointIds |-> <<>>]
    /\ flock = Unlocked
    /\ elock = [e \in EndpointIds |-> Unlocked]
    /\ conn = [c \in Conns |-> [NewConn EXCEPT !.pc = "pending"]]
    /\ http = [h \in Workers |-> IdleReq]
    /\ he = [pc |-> "idle", b |-> "none"]
    /\ listener = [pc |-> "accept", err |-> "nil"]
    /\ lister = NoLister
    /\ static = NoStatic
    /\ PipeAtRest
    /\ TrieAtRest

NextAccept ==
    \/ \E c \in Conns : Accept(c)
    \/ \E err \in AcceptErrs : AcceptFails(err)
    \/ \E c \in Conns : PeerHandshake(c)
    \/ \E c \in Conns : AddLockF(c)
    \/ \E c \in Conns : AddScan(c)
    \/ \E c \in Conns : AddLockE(c)
    \/ \E c \in Conns : AddAppend(c)
    \/ \E c \in Conns : PeerPing(c)
    \/ \E c \in Conns : PeerPong(c)
    \/ \E c \in Conns : DelLockF(c)
    \/ \E c \in Conns : DelScan(c)
    \/ \E c \in Conns : DelLockE(c)
    \/ \E c \in Conns : DelRemove(c)

SpecAccept == InitAccept /\ [][NextAccept]_vars

\* The replicas connection c has in the hosts of Endpoint e.
OwnURLs(e, c) == {hosts[e][i] : i \in EntriesOf(e, c)}

\* The errors ServeBackend can return.
WorkerErrs == RegErrs \cup {"ping failed", "pong decode", "ping/pong mismatch"}

\* C26: whatever a ServeBackend worker does or fails with, the accept loop
\* goes on accepting and the replicas of the other connections stay as
\* they are; ServeBackends ends only when Accept fails, with that error,
\* and its end touches no worker and no replica.
C26_IsolatedWorkers ==
    /\ [](\A c \in Conns :
             (listener.pc = "accept" /\ conn[c].pc = "pending") => ENABLED Accept(c))
    /\ [](listener.pc = "returned" => listener.err \in AcceptErrs)
    /\ [][\A c \in Conns :
             (conn[c].pc # "pending" /\ conn'[c] # conn[c]) =>
                 /\ listener' = listener
                 /\ \A d \in Conns \ {c} : \A e \in EndpointIds :
                        OwnURLs(e, d)' = OwnURLs(e, d)]_vars
    /\ [][listener' # listener =>
             /\ listener.pc = "accept" /\ listener'.pc = "returned"
             /\ conn' = conn /\ hosts' = hosts]_vars

\* One worker has failed, the other connection is registered and the loop
\* is still accepting.
C26_Witness ==
    \E c \in Conns, d \in Conns :
        /\ conn[c].pc = "returned"
        /\ conn[c].ret = "ping/pong mismatch"
        /\ OwnURLs("E1", d) # {}
        /\ listener.pc = "accept"

----------------------------------------------------------------------------
(* Frontend.Debug                                                          *)
(* An address is the sequence of its numbers and separators:               *)
(* "127.0.0.1:1224" is <<"127", ".", "0", ".", "0", ".", "1", ":", "1224">>. *)

\* The decimal numbers the addresses are written with.
DecValue ==
    [tok \in {"0", "1", "2", "3", "10", "14", "16", "23", "32", "109", "127", "168", "169",
              "172", "188", "192", "254", "256"} |->
        CASE tok = "0" -> 0 [] tok = "1" -> 1 [] tok = "2" -> 2 [] tok = "3" -> 3
          [] tok = "10" -> 10 [] tok = "14" -> 14 [] tok = "16" -> 16 [] tok = "23" -> 23
          [] tok = "32" -> 32 [] tok = "109" -> 109 [] tok = "127" -> 127
          [] tok = "168" -> 168 [] tok = "169" -> 169 [] tok = "172" -> 172
          [] tok = "188" -> 188 [] tok = "192" -> 192 [] tok = "254" -> 254
          [] OTHER -> 256]

\* The hexadecimal numbers the addresses are written with.
HexValue ==
    [tok \in {"0", "1", "2", "A", "fc00", "fe80", "febf", "fec0"} |->
        CASE tok = "0" -> 0 [] tok = "1" -> 1 [] tok = "2" -> 2 [] tok = "A" -> 10
          [] tok = "fc00" -> 64512 [] tok = "fe80" -> 65152 [] tok = "febf" -> 65215
          [] OTHER -> 65216]

NilIP == [fam |-> 0, words |-> <<>>]

\* The dotted form: four decimal numbers up to 255, as four bytes.
ParseIPv4(s) ==
    LET parts == Split(s, ".")
    IN IF /\ Len(parts) = 4
          /\ \A i \in 1..4 : /\ Len(parts[i]) = 1
                             /\ parts[i][1] \in DOMAIN DecValue
                             /\ DecValue[parts[i][1]] <= 255
       THEN [fam |-> 4, words |-> [i \in 1..4 |-> DecValue[parts[i][1]]]]
       ELSE NilIP

\* The colon form: up to eight hexadecimal groups, one "::" standing for
\* the groups left out, as eight 16-bit words.
ParseIPv6(s) ==
    LET parts == Split(s, ":")
        n == Len(parts)
        gaps == {i \in 1..n : parts[i] = <<>>}
        \* "::" at an end shows as two empty pieces, inside as one
        head == IF n >= 2 /\ parts[1] = <<>> /\ parts[2] = <<>> THEN 2 ELSE 1
        tail == IF n >= 2 /\ parts[n] = <<>> /\ parts[n - 1] = <<>> /\ n > 2 THEN n - 1 ELSE n
        body == SubSeq(parts, head, tail)
        holes == {i \in 1..Len(body) : body[i] = <<>>}
        groups == Len(body) - Cardinality(holes)
        hole == IF holes = {} THEN 0 ELSE CHOOSE i \in holes : TRUE
        word(i) ==
            IF hole = 0 THEN HexValue[body[i][1]]
            ELSE IF i < hole THEN HexValue[body[i][1]]
            ELSE IF i < hole + (8 - groups) THEN 0
            ELSE HexValue[body[i - (8 - groups) + 1][1]]
    IN IF /\ Cardinality(holes) <= 1
          /\ \A i \in 1..Len(body) :
                i \notin holes => Len(body[i]) = 1 /\ body[i][1] \in DOMAIN HexValue
          /\ IF holes = {} THEN groups = 8 ELSE groups < 8
       THEN [fam |-> 6, words |-> [i \in 1..8 |-> word(i)]]
       ELSE NilIP

\* net.ParseIP(s): nil for what is neither form.
ParseIP(s) ==
    IF IndexOf(s, ".") # 0 THEN ParseIPv4(s)
    ELSE IF IndexOf(s, ":") # 0 THEN ParseIPv6(s)
    ELSE NilIP

RECURSIVE Pow2(_)
Pow2(n) == IF n = 0 THEN 1 ELSE 2 * Pow2(n - 1)

\* A network: the family, the words of its address and the prefix length.
IPNet(fam, words, bits) == [fam |-> fam, words |-> words, bits |-> bits]

\* (*IPNet).Contains(ip): same family and same bits under the mask.
Contains(net, ip) ==
    LET size == IF net.fam = 4 THEN 8 ELSE 16
        masked(k) == Min(size, IF net.bits > (k - 1) * size THEN net.bits - (k - 1) * size ELSE 0)
    IN /\ ip.fam = net.fam
       /\ \A k \in 1..Len(net.words) :
             ip.words[k] \div Pow2(size - masked(k)) = net.words[k] \div Pow2(size - masked(k))

LocalDebugIPs ==
    <<IPNet(4, <<127, 0, 0, 0>>, 8),
      IPNet(6, <<0, 0, 0, 0, 0, 0, 0, 1>>, 128),
      IPNet(4, <<169, 254, 0, 0>>, 16),
      IPNet(6, <<65152, 0, 0, 0, 0, 0, 0, 0>>, 10),
      IPNet(6, <<64512, 0, 0, 0, 0, 0, 0, 0>>, 7),
      IPNet(4, <<10, 0, 0, 0>>, 8),
      IPNet(4, <<172, 16, 0, 0>>, 12),
      IPNet(4, <<192, 168, 0, 0>>, 16)>>

\* http.NotFound(w, r); the wrapped handler is not called.
DebugNotFound == [invoked |-> FALSE, Code |-> 404]

\* A wrapper that lets an address through when it cannot tell its IP.
DebugFailOpen(debugIPs, remoteAddr) ==
    LET split == SplitHostPort(remoteAddr)
        ip == ParseIP(split.host)
    IN IF split.err # "nil" \/ ip = NilIP THEN [invoked |-> TRUE, Code |-> 200]
       ELSE IF \E i \in 1..Len(debugIPs) : Contains(debugIPs[i], ip)
            THEN [invoked |-> TRUE, Code |-> 200]
       ELSE DebugNotFound

\* The handler f.Debug(h) returns, on a request from remoteAddr with
\* f.DebugIPs = debugIPs; h is ListBackends, which answers 200.
Debug(debugIPs, remoteAddr) ==
    LET split == SplitHostPort(remoteAddr)
        ip == ParseIP(split.host)
    IN IF split.err # "nil" THEN DebugNotFound
       ELSE IF ip = NilIP THEN DebugNotFound
       ELSE IF \E i \in 1..Len(debugIPs) : Contains(debugIPs[i], ip)
            THEN [invoked |-> TRUE, Code |-> 200]
       ELSE DebugNotFound

\* net.JoinHostPort(host, port)
JoinHostPort(host, port) ==
    IF IndexOf(host, ":") # 0 THEN <<"[">> \o host \o <<"]", ":", port>>
    ELSE host \o <<":", port>>

\* The hosts requests come from: those of TestDebug, one inside and one
\* outside of each network of LocalDebugIPs, and one that is no IP.
DebugHosts ==
    {<<"127", ".", "0", ".", "0", ".", "1">>,
     <<"fe80", ":", ":", "A", ":", "0", ":", "0", ":", "1", ":", "2">>,
     <<"188", ".", "14", ".", "109", ".", "23">>,
     <<":", ":", "1">>, <<":", ":", "2">>,
     <<"169", ".", "254", ".", "1", ".", "1">>,
     <<"febf", ":", ":", "1">>, <<"fec0", ":", ":", "1">>,
     <<"fc00", ":", ":", "1">>,
     <<"10", ".", "1", ".", "2", ".", "3">>,
     <<"172", ".", "16", ".", "0", ".", "1">>, <<"172", ".", "32", ".", "0", ".", "1">>,
     <<"192", ".", "168", ".", "1", ".", "1">>, <<"192", ".", "169", ".", "1", ".", "1">>,
     <<"256", ".", "0", ".", "0", ".", "1">>,
     <<"localhost">>}

\* RemoteAddr of a request: a host with its port, or a bare host.
DebugAddrs == {JoinHostPort(h, "1224") : h \in DebugHosts} \cup DebugHosts

RECURSIVE Pick(_, _)
\* The networks of list whose index is in keep, in the order of list.
Pick(list, keep) ==
    IF list = <<>> THEN <<>>
    ELSE Pick(SubSeq(list, 1, Len(list) - 1), keep)
         \o (IF Len(list) \in keep THEN <<list[Len(list)]>> ELSE <<>>)

\* f.DebugIPs: any part of LocalDebugIPs, none and all of it included.
DebugConfigs == {Pick(LocalDebugIPs, keep) : keep \in SUBSET (1..Len(LocalDebugIPs))}

InitDebug == RegistryAtRest /\ PipeAtRest /\ TrieAtRest

\* One request to /__backends; tres holds the call and its outcome.
DebugServe(debugIPs, remoteAddr) ==
    /\ tres.op = "none"
    /\ tres' = [op |-> "debug", count |-> 0, debugIPs |-> debugIPs,
                remoteAddr |-> remoteAddr, out |-> Debug(debugIPs, remoteAddr)]

NextDebug ==
    /\ \E debugIPs \in DebugConfigs, remoteAddr \in DebugAddrs :
          DebugServe(debugIPs, remoteAddr)
    /\ UNCHANGED <<trie, regVars, http, he, pipeVars, sideVars>>

SpecDebug == InitDebug /\ [][NextDebug]_vars

\* The networks of a list that hold the host of an address written as a
\* host and a port.
NetsHolding(debugIPs, remoteAddr) ==
    {i \in 1..Len(debugIPs) :
        /\ SplitHostPort(remoteAddr).err = "nil"
        /\ ParseIP(SplitHostPort(remoteAddr).host) # NilIP
        /\ Contains(debugIPs[i], ParseIP(SplitHostPort(remoteAddr).host))}

\* C27: the wrapped handler is called exactly when the remote address
\* splits into host and port, the host is an IP and some network of
\* DebugIPs holds it; every other request gets 404.  With LocalDebugIPs,
\* 127.0.0.1 and fe80::a:0:0:1:2 get 200 and 188.14.109.23 gets 404.
C27_DebugOnlyFromDebugIPs ==
    tres.op = "debug" =>
        /\ tres.out.invoked <=> NetsHolding(tres.debugIPs, tres.remoteAddr) # {}
        /\ ~tres.out.invoked => tres.out.Code = 404
        /\ tres.debugIPs = <<>> => tres.out.Code = 404
        /\ tres.debugIPs = LocalDebugIPs =>
              /\ tres.remoteAddr = <<"127", ".", "0", ".", "0", ".", "1", ":", "1224">>
                    => tres.out.Code = 200
              /\ (/\ tres.remoteAddr[1] = "["
                  /\ tres.remoteAddr[2] \in {"fe80", "febf"}) => tres.out.Code = 200
              /\ tres.remoteAddr[1] \in {"188", "fec0", "localhost", "256"}
                    => tres.out.Code = 404

C27_Witness ==
    /\ tres.op = "debug"
    /\ tres.debugIPs = LocalDebugIPs
    /\ tres.remoteAddr = JoinHostPort(<<"fe80", ":", ":", "A", ":", "0", ":", "0", ":", "1",
                                        ":", "2">>, "1224")
    /\ tres.out = [invoked |-> TRUE, Code |-> 200]

----------------------------------------------------------------------------
(* Frontend.HandleEndpoint on any Endpoint objects                         *)

\* Endpoint objects a program may hand to HandleEndpoint: E3 is named as
\* E1 is, E4 has no name.
EndpointObjs == EndpointIds \cup {"E3", "E4"}

InitEndpoints == RegistryAtRest /\ PipeAtRest /\ TrieAtRest

NextEndpoints ==
    \/ \E e \in EndpointObjs : HandleEndpointBegin(e)
    \/ HandleEndpointAppend

SpecEndpoints == InitEndpoints /\ [][NextEndpoints]_vars

\* C28: every endpoint in f.endpoints has a name and no two have the same
\* name, so a name has at most one endpoint.
C28_NamesUnique ==
    /\ \A i \in 1..Len(endpoints) : EpName(endpoints[i]) # ""
    /\ \A i, j \in 1..Len(endpoints) : i # j => EpName(endpoints[i]) # EpName(endpoints[j])

----------------------------------------------------------------------------
(* Sleepish                                                                *)
(* Durations are whole nanoseconds; the factor is kept in ten-thousandths  *)
(* and a draw of rand.NormFloat64 in hundredths.                           *)

MaxDuration == 8

\* 1 + draw*StdDev, with StdDev = 0.15, left as it comes.
FuzzUnclamped(draw) == 10000 + 15 * draw

\* fuzz := 1 + rand.NormFloat64()*StdDev, brought into [Min, Max] =
\* [0.5, 1.5].
Fuzz(draw) ==
    LET fuzz == 10000 + 15 * draw
    IN IF fuzz > 15000 THEN 15000 ELSE IF fuzz < 5000 THEN 5000 ELSE fuzz

\* time.Duration(float64(dur) * fuzz): the conversion drops the fraction
\* (dur is not negative here, so \div rounds as the conversion does).
SleepishDuration(dur, draw) == (dur * Fuzz(draw)) \div 10000

\* The durations asked for, and the draws: the mean, both tails beyond the
\* clamp, the last draws inside it and some between.
Durations == 0..MaxDuration \cup {1000}

Draws == {-400, -334, -333, -200, -100, -50, -1, 0, 1, 50, 100, 200, 333, 334, 400}

InitSleepish == RegistryAtRest /\ PipeAtRest /\ TrieAtRest

\* Sleepish(dur) with sleep replaced as TestSleepish replaces it: tres
\* holds the duration sleep was called with.
SleepishCall(dur, draw) ==
    /\ tres.op = "none"
    /\ tres' = [op |-> "sleepish", count |-> 0, dur |-> dur, draw |-> draw,
                slept |-> SleepishDuration(dur, draw)]

NextSleepish ==
    /\ \E dur \in Durations, draw \in Draws : SleepishCall(dur, draw)
    /\ UNCHANGED <<trie, regVars, http, he, pipeVars, sideVars>>

SpecSleepish == InitSleepish /\ [][NextSleepish]_vars

----------------------------------------------------------------------------
(* Endpoint.ServeHTTP and the endpoint's read lock (Spec)                  *)

\* C30: a ServeHTTP call that has returned or has ended in a panic holds
\* the read lock of no endpoint.
C30_ReadLockReleased ==
    \A h \in Workers :
        http[h].pc \in {"done", "panicked"} => \A e \in EndpointIds : h \notin elock[e].r

----------------------------------------------------------------------------
(* The registry and its locks (Spec): removal, liveness, lock order        *)

\* C31: whenever a ServeHTTP call selects a replica, the replica is in the
\* hosts of its endpoint and the delBackend of the connection that added
\* it has not returned: no call that takes the read lock after a removal
\* selects the removed replica.
C31_RemovedNotSelected ==
    [][\A h \in Workers :
          (http[h].pc = "lenread" /\ http'[h].pc = "picked") =>
              /\ http'[h].from \in PtrsIn(http[h].ep)
              /\ http'[h].from \in Conns
              /\ conn[http'[h].from].pc # "returned"
              /\ conn[http'[h].from].added.ep = http[h].ep]_vars

\* A call holds the read lock of an endpoint one of whose replicas was
\* removed before, with one replica left to select.
C31_Witness ==
    \E h \in Workers, c \in Conns :
        /\ http[h].pc = "lenread"
        /\ http[h].avail = 1
        /\ conn[c].pc = "returned"
        /\ conn[c].added.ep = http[h].ep

----------------------------------------------------------------------------
(* Liveness of the registry: workers against far ends that may close the   *)
(* connection or fall silent.  be holds the state of each far end.         *)

\* The far end of connection c closes it: the backend's lame-duck
\* goroutine calls conn.Close(), the backend exits or the network
\* resets the connection.
FarClose(c) ==
    /\ conn[c].pc # "returned"
    /\ be[c] \in {"open", "silent"}
    /\ be' = [be EXCEPT ![c] = "closed"]
    /\ UNCHANGED <<regVars, http, he, pipe, hook, wire, trieVars, sideVars>>

\* The far end stops reading and writing and leaves the connection open.
FarHang(c) ==
    /\ conn[c].pc # "returned"
    /\ be[c] = "open"
    /\ be' = [be EXCEPT ![c] = "silent"]
    /\ UNCHANGED <<regVars, http, he, pipe, hook, wire, trieVars, sideVars>>

\* dec.Decode(&reg): it returns once the far end wrote or closed.
LiveHandshake(c) ==
    /\ be[c] # "silent"
    /\ \E in \in IF be[c] = "closed" THEN {[kind |-> "err", err |-> "EOF"]}
                 ELSE HandshakeInputs,
          peer \in Peers : FeHandshake(c, in, peer)
    /\ UNCHANGED pipeVars

\* Sleepish returns and enc.Encode(ping) is called: the write succeeds on
\* an open connection and may fail on a closed one.
LivePing(c) ==
    /\ \E n \in Nonces, out \in IF be[c] = "closed" THEN EncodeOutcomes ELSE {"ok"} :
          FePing(c, n, out)
    /\ UNCHANGED pipeVars

\* dec.Decode(&pong): there is no read deadline, so it returns only once
\* the far end answered or closed.
LivePong(c) ==
    /\ be[c] # "silent"
    /\ \E in \in DecodeOutcomes :
          /\ in.kind = "err" <=> be[c] = "closed"
          /\ FePong(c, in)
    /\ UNCHANGED pipeVars

\* The steps of the ServeBackend worker of connection c.
WorkerStep(c) ==
    \/ LiveHandshake(c) \/ LivePing(c) \/ LivePong(c)
    \/ AddLockF(c) \/ AddScan(c) \/ AddLockE(c) \/ AddAppend(c)
    \/ DelLockF(c) \/ DelScan(c) \/ DelLockE(c) \/ DelRemove(c)

\* The steps of a ServeHTTP call once it has the read lock.
ServeStep(h) ==
    \/ ServeLen(h) \/ ServeDraw(h) \/ (\E ok \in BOOLEAN : ServeRoundTrip(h, ok))
    \/ ServeReturn(h)

\* Both endpoints are registered, no backend has connected.
InitLive ==
    /\ endpoints = <<"E1", "E2">>
    /\ hosts = [e \in EndpointIds |-> <<>>]
    /\ flock = Unlocked
    /\ elock = [e \in EndpointIds |-> Unlocked]
    /\ conn = [c \in Conns |-> NewConn]
    /\ http = [h \in Workers |-> IdleReq]
    /\ he = [pc |-> "idle", b |-> "none"]
    /\ listener = NoListener
    /\ lister = NoLister
    /\ static = NoStatic
    /\ be = [c \in Conns |-> "open"]
    /\ pipe = [toFE |-> <<>>, toBE |-> <<>>, beClosed |-> FALSE]
    /\ hook = [count |-> 0, closeAfter |-> 0, slept |-> FALSE]
    /\ wire = <<>>
    /\ TrieAtRest

NextLive ==
    \/ \E c \in Conns : FarClose(c)
    \/ \E c \in Conns : FarHang(c)
    \/ \E c \in Conns : WorkerStep(c)
    \/ \E h \in Workers, e \in EndpointIds : ServeRLock(h, e)
    \/ \E h \in Workers : ServeStep(h)

\* Sleepish returns and every worker keeps being scheduled, a blocked
\* Lock() is granted once the lock is free often enough, and a ServeHTTP
\* call that has begun goes on.
SpecLive ==
    /\ InitLive
    /\ [][NextLive]_vars
    /\ \A c \in Conns : SF_vars(WorkerStep(c))
    /\ \A h \in Workers : WF_vars(ServeStep(h))

\* C32: once the far end of a registered backend's connection has closed
\* it, ServeBackend eventually returns and the replica is eventually out of
\* every hosts list.
C32_ClosedIsRemoved ==
    \A c \in Conns :
        (be[c] = "closed" /\ \E e \in EndpointIds : c \in PtrsIn(e))
            ~> (conn[c].pc = "returned" /\ \A e \in EndpointIds : c \notin PtrsIn(e))

\* C33: a registered replica whose far end has fallen silent with the
\* connection left open is eventually out of every hosts list.  The
\* far end closing after all and a ServeHTTP call that panicked with
\* its read lock held are set aside, so that only the probe is judged.
C33_SilentIsRemoved ==
    \A c \in Conns :
        (be[c] = "silent" /\ \E e \in EndpointIds : c \in PtrsIn(e))
            ~> \/ \A e \in EndpointIds : c \notin PtrsIn(e)
               \/ be[c] = "closed"
               \/ \E h \in Workers : http[h].pc = "panicked"

----------------------------------------------------------------------------
(* Lock order: addBackend, delBackend, ListBackends and ServeHTTP          *)

\* The goroutine that serves /_gofr/backends.
Lister == "L1"

\* ListBackends: f.lock.RLock(); the range over f.endpoints starts.
ListRLockF ==
    /\ lister.pc = "idle"
    /\ CanRLock(flock)
    /\ flock' = [flock EXCEPT !.r = @ \cup {Lister}]
    /\ lister' = [pc |-> "range", i |-> 1]
    /\ UNCHANGED <<endpoints, hosts, elock, conn, http, he, pipeVars, trieVars, listener, static>>

\* ListBackends: b.lock.RLock() on the next Endpoint of the range.
ListRLockE ==
    /\ lister.pc = "range"
    /\ lister.i <= Len(endpoints)
    /\ CanRLock(elock[endpoints[lister.i]])
    /\ elock' = [elock EXCEPT ![endpoints[lister.i]].r = @ \cup {Lister}]
    /\ lister' = [lister EXCEPT !.pc = "print"]
    /\ UNCHANGED <<endpoints, hosts, flock, conn, http, he, pipeVars, trieVars, listener, static>>

\* A slip: the Endpoint's hosts are printed and its lock is kept.
ListKeepsELock ==
    /\ lister.pc = "print"
    /\ lister' = [pc |-> "range", i |-> lister.i + 1]
    /\ UNCHANGED <<endpoints, hosts, flock, elock, conn, http, he, pipeVars, trieVars,
                   listener, static>>

\* ListBackends: the Endpoint's hosts are printed; b.lock.RUnlock().
ListRUnlockE ==
    /\ lister.pc = "print"
    /\ elock' = [elock EXCEPT ![endpoints[lister.i]].r = @ \ {Lister}]
    /\ lister' = [pc |-> "range", i |-> lister.i + 1]
    /\ UNCHANGED <<endpoints, hosts, flock, conn, http, he, pipeVars, trieVars, listener, static>>

\* ListBackends returns: the deferred f.lock.RUnlock().
ListReturn ==
    /\ lister.pc = "range"
    /\ lister.i > Len(endpoints)
    /\ flock' = [flock EXCEPT !.r = @ \ {Lister}]
    /\ lister' = NoLister
    /\ UNCHANGED <<endpoints, hosts, elock, conn, http, he, pipeVars, trieVars, listener, static>>

NextLocks ==
    \/ \E c \in Conns : LiveHandshake(c)
    \/ \E c \in Conns : LivePing(c)
    \/ \E c \in Conns : LivePong(c)
    \/ \E c \in Conns : AddLockF(c)
    \/ \E c \in Conns : AddScan(c)
    \/ \E c \in Conns : AddLockE(c)
    \/ \E c \in Conns : AddAppend(c)
    \/ \E c \in Conns : DelLockF(c)
    \/ \E c \in Conns : DelScan(c)
    \/ \E c \in Conns : DelLockE(c)
    \/ \E c \in Conns : DelRemove(c)
    \/ \E h \in Workers, e \in EndpointIds : ServeRLock(h, e)
    \/ \E h \in Workers : ServeStep(h)
    \/ ListRLockF
    \/ ListRLockE
    \/ ListRUnlockE
    \/ ListReturn

SpecLocks == InitLive /\ [][NextLocks]_vars

\* Agent a holds lock l, as its writer or one of its readers.
Holds(l, a) == l.w = a \/ a \in l.r

\* sync.RWMutex: a call of Lock has announced itself on the Endpoint's
\* lock and waits for the readers to leave; calls of RLock wait behind it.
ELockWaited(e) ==
    \E c \in Conns : conn[c].pc \in {"add_lockE", "del_lockE"} /\ conn[c].b = e

\* The operations that have begun and not returned.
PendingOps ==
    {c \in Conns : conn[c].pc \in {"add_lockF", "add_scan", "add_lockE", "add_append",
                                   "del_lockF", "del_scan", "del_lockE", "del_remove"}}
    \cup {h \in Workers : http[h].pc \in {"rlocked", "lenread"}}
    \cup (IF lister.pc = "idle" THEN {} ELSE {Lister})

\* Operation a waits for a lock it cannot be given in this state.
BlockedOp(a) ==
    IF a \in Conns
    THEN \/ conn[a].pc \in {"add_lockF", "del_lockF"} /\ ~CanLock(flock)
         \/ conn[a].pc \in {"add_lockE", "del_lockE"} /\ ~ELockFree(conn[a].b)
    ELSE IF a = Lister
    THEN /\ lister.pc = "range"
         /\ lister.i <= Len(endpoints)
         /\ \/ ~CanRLock(elock[endpoints[lister.i]])
            \/ ELockWaited(endpoints[lister.i])
    ELSE FALSE

\* An Endpoint lock is taken by addBackend, delBackend or ListBackends
\* only under the Frontend lock, and the Frontend lock never under an
\* Endpoint lock.
LockOrderStep ==
    /\ \A a \in Conns \cup {Lister}, e \in EndpointIds :
          (~Holds(elock[e], a) /\ Holds(elock'[e], a)) => Holds(flock, a)
    /\ \A a \in Conns \cup Workers \cup {Lister} :
          (~Holds(flock, a) /\ Holds(flock', a)) =>
              \A e \in EndpointIds : ~Holds(elock[e], a)

\* C34: the Frontend lock is taken before an Endpoint lock and never
\* under one; and while no ServeHTTP call ran on an Endpoint without
\* replicas, some operation that has begun can always take its next step.
C34_LockOrder ==
    /\ [][LockOrderStep]_vars
    /\ []((\A h \in Workers : http[h].pc # "panicked") =>
             (PendingOps # {} => \E a \in PendingOps : ~BlockedOp(a)))

\* ListBackends holds both locks for reading while an addBackend waits for
\* the Frontend lock and a ServeHTTP call holds an Endpoint lock.
C34_Witness ==
    /\ lister.pc = "print"
    /\ \E c \in Conns : conn[c].pc \in {"add_lockF", "del_lockF"}
    /\ \E h \in Workers : http[h].pc = "lenread" /\ http[h].avail > 0

----------------------------------------------------------------------------
(* Further claims about Trie and ServeMux (SpecMux)                        *)

\* Names looked for among a node's children: those the patterns make and
\* some they do not.
ProbeNames ==
    {<<>>, <<"a">>, <<"a", "/">>, <<"b">>, <<"b", "/">>, <<"c">>, <<"d">>, <<"/">>}

\* The children of t ascend strictly by name.
ChildrenAscend(t) ==
    \A i \in 1..(Len(t.Child) - 1) : StrLess(t.Child[i].Name, t.Child[i + 1].Name)

\* The binary search of Find meets a child of t exactly when t has one of
\* that name, and meets that one.
SearchIsExact(t) ==
    \A name \in ProbeNames :
        LET i == BinarySearch(t.Child, 0, name)
        IN IF ChildrenNamed(t, name) = {} THEN i = 0
           ELSE i # 0 /\ t.Child[i].Name = name

RECURSIVE EveryNode(_, _)
\* P holds of t, of every node below it and of every node of the inner
\* trie of every Domain that is a leaf among them.
EveryNode(P(_), t) ==
    /\ P(t)
    /\ \A i \in 1..Len(t.Child) : EveryNode(P, t.Child[i])
    /\ t.Leaf.kind = "domain" => EveryNode(P, t.Leaf.trie)

\* C35: after any calls of Handle (and so of Insert), the children of every
\* node of the outer trie and of every Domain's inner trie ascend strictly
\* by name, without duplicates, and Find's binary search locates a child
\* exactly when it exists.
C35_ChildrenSorted ==
    /\ EveryNode(ChildrenAscend, trie)
    /\ EveryNode(SearchIsExact, trie)

\* Handle("/a/") on a fresh mux: Insert adds "a/" and then "a", the
\* smaller name last.
C35_Witness ==
    /\ tres.op = "handle"
    /\ tres.pattern = <<"/", "a", "/">>
    /\ tres.before.Leaf.trie.Child = <<>>
    /\ Len(trie.Leaf.trie.Child) = 2

\* The path of a Location that has no scheme and host: the part before
\* the "?".
LocationPath(loc) ==
    IF IndexOf(loc, "?") = 0 THEN loc ELSE SubSeq(loc, 1, IndexOf(loc, "?") - 1)

\* C36: a request whose path is its own cleaned form, the root "/" and the
\* clean paths ending in "/" among them, is not answered 301; and the path
\* a 301 sends the client to is not answered 301 when it is requested.
C36_CleanNotRedirected ==
    (tres.op = "serve" /\ ~SubDomain(trie, tres.req.Host)) =>
        /\ tres.req.URL.Path = CleanForm(tres.req.URL.Path) => tres.resp.code # 301
        /\ tres.resp.code = 301 =>
              ServeHTTP(trie, [tres.req EXCEPT
                                  !.URL.Path = LocationPath(tres.resp.Location)]).code # 301

\* The tokens of s from index i on.
From(s, i) == SubSeq(s, i, Len(s))

\* The request a client makes when it follows Location loc from request r,
\* resolving loc against r's URL as net/url's ResolveReference does.  The
\* locations ServeMux writes are "scheme://host/path?query" (changeHost)
\* and "/path?query" (rewrite, addSlash); one that starts with "//" names
\* an empty host and an empty path, which leaves host and path as they are.
Follow(r, loc) ==
    LET q == IndexOf(loc, "?")
        query == IF q = 0 THEN <<>> ELSE From(loc, q + 1)
        hier == IF q = 0 THEN loc ELSE SubSeq(loc, 1, q - 1)
    IN IF Len(hier) > 0 /\ hier[1] \in {"http", "https"}
       THEN LET rest == From(hier, 5)
                slash == IndexOf(rest, "/")
            IN Request(IF slash = 0 THEN rest ELSE SubSeq(rest, 1, slash - 1),
                       IF slash = 0 THEN <<"/">> ELSE From(rest, slash),
                       query, hier[1] = "https")
       ELSE IF Len(hier) >= 2 /\ hier[1] = "/" /\ hier[2] = "/"
       THEN LET rest == From(hier, 3)
                slash == IndexOf(rest, "/")
                host == IF slash = 0 THEN rest ELSE SubSeq(rest, 1, slash - 1)
                path == IF slash = 0 THEN <<>> ELSE From(rest, slash)
            IN Request(IF host = <<>> THEN r.Host ELSE host,
                       IF path = <<>> THEN r.URL.Path ELSE path,
                       query, r.TLS)
       ELSE Request(r.Host, hier, query, r.TLS)

RECURSIVE Settles(_, _, _)
\* Following the redirects of mux s from request r reaches a response
\* that is no redirect within k hops.
Settles(s, r, k) ==
    LET resp == ServeHTTP(s, r)
    IN IF resp.code \notin {301, 302} THEN TRUE
       ELSE IF k = 0 THEN FALSE
       ELSE Settles(s, Follow(r, resp.Location), k - 1)

\* C37: from any request to any mux, following the Location of each
\* redirect reaches a response that is no redirect after at most three
\* hops.
C37_RedirectsConverge == tres.op = "serve" => Settles(trie, tres.req, 3)

\* Domains, as label sequences most general first: any host, "d", "c.d",
\* "b.c.d" and "c".
DomainPaths ==
    {<<>>, << <<"d">> >>, << <<"d">>, <<"c">> >>, << <<"d">>, <<"c">>, <<"b">> >>,
     << <<"c">> >>}

RECURSIVE HandlerIds(_)
\* The ids of the registered handlers among the leaves of trie t.
HandlerIds(t) ==
    (IF t.Leaf.kind = "handler" THEN {t.Leaf.id} ELSE {})
    \cup UNION {HandlerIds(t.Child[i]) : i \in 1..Len(t.Child)}

\* C38: a call of Handle leaves the Domain of every domain but the
\* pattern's own as it was, the any-host Domain among them; and a request
\* whose host has no registered suffix, which the any-host Domain serves,
\* never runs a handler that is in the trie of a Domain registered for a
\* domain.
C38_HandleFrame ==
    /\ tres.op = "handle" =>
          \A p \in DomainPaths :
              (Len(SplitAfter(tres.pattern, "/")) < 2 \/ p # PatternDomain(tres.pattern))
                  => LeafAt(trie, p) = LeafAt(tres.before, p)
    /\ (tres.op = "serve" /\ RegisteredSuffixes(trie, tres.req.Host) = {}
        /\ tres.resp.by # 0)
          => /\ tres.resp.by \in HandlerIds(trie.Leaf.trie)
             /\ \A p \in DomainPaths \ {<<>>} :
                   LeafAt(trie, p).kind = "domain" =>
                       tres.resp.by \notin HandlerIds(LeafAt(trie, p).trie)

\* "c.d/a" is registered on a mux that has "/a" and "d/a": the Domain of
\* c.d is made and the others stay.
C38_Witness ==
    /\ tres.op = "handle"
    /\ tres.pattern = <<"c", ".", "d", "/", "a">>
    /\ LeafAt(tres.before, << <<"d">>, <<"c">> >>) = NilLeaf
    /\ LeafAt(trie, << <<"d">>, <<"c">> >>).kind = "domain"
    /\ LeafAt(trie, << <<"d">> >>).kind = "domain"
    /\ HandlerIds(trie.Leaf.trie) # {}

----------------------------------------------------------------------------
(* Endpoint.ServeHTTP and the replica URLs (SpecForward)                   *)

\* C39: the URL of the backend request has the scheme and host of the
\* replica drawn and exactly the path and query of the client's request,
\* and after any calls hosts holds the same URLs with the same fields in
\* the same order.
C39_URLCopied ==
    /\ hosts["E1"] = TestHosts
    /\ hosts["E2"] = <<>>
    /\ Forwarded =>
          LET url == tres.out.req.URL
              replica == TestHosts[tres.call.i + 1]
          IN /\ url.Scheme = replica.Scheme
             /\ url.Host = replica.Host
             /\ url.Path = tres.call.original.URL.Path
             /\ url.RawQuery = tres.call.original.URL.RawQuery

\* A second call was forwarded to the second replica, whose own path
\* differs from the client's.
C39_Witness ==
    /\ Forwarded
    /\ tres.count = 2
    /\ tres.call.i = 1
    /\ tres.out.req.URL.Scheme = "http"
    /\ tres.out.req.URL.Path = "/foo"
    /\ hosts["E1"][2].Path = "/some/path"

----------------------------------------------------------------------------
(* The static file cache (src/unnamed/part_003): serve, put and taint on   *)
(* one DirCache.  static holds the wall clock, the count of file reads and *)
(* taints so far, the two maps, the serve calls and the puts under way.    *)

\* The greatest clock reading and the most file reads and taints.
MaxClock == 3
MaxSteps == 4

\* The files of the directory and the goroutines that serve requests.
Files == {"f1"}
Servers == {"s1", "s2"}

\* The zero time.Time, before every clock reading.
ZeroTime == 0

\* A nil *fileData.
NoData == [kind |-> "nil"]

\* A serve call that has not begun.
IdleServe == [pc |-> "idle", file |-> "none", now |-> ZeroTime, got |-> NoData]

\* A slip: a touch at the very clock reading of the serve lets the put in.
BeforeOrAt(u, t) == u <= t

\* time.Time.Before
Before(u, t) == u < t

\* Dir(dir): both maps are empty; nothing else is in use.
InitStatic ==
    /\ static = [clock |-> 1, step |-> 0,
                 data |-> [f \in Files |-> NoData],
                 touch |-> [f \in Files |-> ZeroTime],
                 tainted |-> [f \in Files |-> 0],
                 srv |-> [s \in Servers |-> IdleServe],
                 puts |-> {}]
    /\ endpoints = <<>>
    /\ hosts = [e \in EndpointIds |-> <<>>]
    /\ flock = Unlocked
    /\ elock = [e \in EndpointIds |-> Unlocked]
    /\ conn = [c \in Conns |-> NewConn]
    /\ http = [h \in Workers |-> IdleReq]
    /\ he = [pc |-> "idle", b |-> "none"]
    /\ listener = NoListener
    /\ lister = NoLister
    /\ PipeAtRest
    /\ TrieAtRest

\* The wall clock moves on; two calls of time.Now() between two moves
\* read the same time.
ClockTick ==
    /\ static.clock < MaxClock
    /\ static' = [static EXCEPT !.clock = @ + 1]

\* serve: data, touched := get(file), under the read lock.  With data the
\* call goes on to http.ServeContent, without it to the file.
StaticGet(s, f) ==
    /\ static.srv[s].pc = "idle"
    /\ static' = [static EXCEPT !.srv[s] =
                     IF static.data[f] # NoData
                     THEN [pc |-> "cached", file |-> f, now |-> static.touch[f],
                           got |-> static.data[f]]
                     ELSE [pc |-> "now", file |-> f, now |-> ZeroTime, got |-> NoData]]

\* serve: http.ServeContent writes the cached data; the call returns.
StaticServeContent(s) ==
    /\ static.srv[s].pc = "cached"
    /\ static' = [static EXCEPT !.srv[s] = IdleServe]

\* serve: now := time.Now()
StaticNow(s) ==
    /\ static.srv[s].pc = "now"
    /\ static' = [static EXCEPT !.srv[s].pc = "file", !.srv[s].now = static.clock]

\* serve: http.ServeFile reads the file as it is and writes it out (empty:
\* nothing was written or no Content-Type was set); go put(file, now, data)
\* starts the put and the call returns.
StaticServeFile(s, empty) ==
    /\ static.srv[s].pc = "file"
    /\ static.step < MaxSteps
    /\ static' = [static EXCEPT
                     !.step = @ + 1,
                     !.puts = @ \cup {[file |-> static.srv[s].file,
                                       t |-> static.srv[s].now,
                                       data |-> [kind |-> "data", read |-> static.step + 1,
                                                 empty |-> empty]]},
                     !.srv[s] = IdleServe]

\* DirCache.put(file, t, data), under the lock: nothing is stored when
\* the data is empty or the file's touch is not before t.
StaticPut(p) ==
    /\ p \in static.puts
    /\ static' = IF p.data.empty \/ ~Before(static.touch[p.file], p.t)
                 THEN [static EXCEPT !.puts = @ \ {p}]
                 ELSE [static EXCEPT !.puts = @ \ {p},
                                     !.touch[p.file] = p.t,
                                     !.data[p.file] = p.data]

\* DirCache.taint(file), under the lock, on a filesystem event.
StaticTaint(f) ==
    /\ static.step < MaxSteps
    /\ static' = [static EXCEPT !.step = @ + 1,
                                !.touch[f] = static.clock,
                                !.data[f] = NoData,
                                !.tainted[f] = static.step + 1]

NextStatic ==
    /\ \/ ClockTick
       \/ \E s \in Servers, f \in Files : StaticGet(s, f)
       \/ \E s \in Servers : StaticServeContent(s)
       \/ \E s \in Servers : StaticNow(s)
       \/ \E s \in Servers, empty \in BOOLEAN : StaticServeFile(s, empty)
       \/ \E p \in static.puts : StaticPut(p)
       \/ \E f \in Files : StaticTaint(f)
    /\ UNCHANGED <<regVars, http, he, pipeVars, trieVars, listener, lister>>

SpecStatic == InitStatic /\ [][NextStatic]_vars

\* The data kept for f was read from the file after f's last taint.
Fresh(d, f) == d # NoData => d.read > static.tainted[f]

\* A step that stores data for f is a put whose time the touch it found was
\* strictly before; a taint leaves no data; and a get hands out what the
\* cache holds, fresh, or nothing.
FreshStep ==
    \A f \in Files :
        /\ (static'.data[f] # static.data[f] /\ static'.data[f] # NoData) =>
              \E p \in static.puts :
                  /\ p.file = f /\ p.data = static'.data[f]
                  /\ static.touch[f] < p.t
                  /\ static'.touch[f] = p.t
        /\ static'.tainted[f] # static.tainted[f] => static'.data[f] = NoData
        /\ \A s \in Servers :
              (static.srv[s].pc = "idle" /\ static'.srv[s].pc = "cached"
               /\ static'.srv[s].file = f) =>
                  /\ static.data[f] # NoData
                  /\ static'.srv[s].got = static.data[f]
                  /\ static'.srv[s].got.read > static.tainted[f]

\* C40: a put is stored only when the file's touch is strictly before the
\* time its serve began; the cache never holds, and a get never hands out,
\* data read before the file's last taint; and after a taint the cache holds
\* nothing for the file until a put is stored.
C40_CacheFresh ==
    /\ [](\A f \in Files : Fresh(static.data[f], f))
    /\ [][FreshStep]_vars

\* A put that is bound to be refused on an equal time: the file was read,
\* then tainted before the clock moved, and the put, still under way, will
\* find the touch equal to its time.
C40_Witness ==
    \E f \in Files, p \in static.puts :
        /\ p.file = f
        /\ ~p.data.empty
        /\ p.t = static.touch[f]
        /\ p.data.read < static.tainted[f]
        /\ static.data[f] = NoData
====
